---- MODULE Spec2Model ----
(***************************************************************************)
(* Model of filter/avgrow.py (POV-Ray Thread / Averager): the adaptive     *)
(* row-then-column averaging filter.                                       *)
(*                                                                         *)
(* An image is a sequence of rows, a row a sequence of pixels, a pixel a   *)
(* sequence of channel values.  Python indexes from 0 and TLA+ sequences   *)
(* from 1: the variables x, y, x_start, y_start hold the Python values and *)
(* every access adds 1.                                                    *)
(***************************************************************************)
EXTENDS Integers, Sequences, FiniteSets, TLC

VARIABLES
    source_image,       \* argument
    threshold_x,        \* argument
    threshold_y,        \* argument
    wrap_around,        \* argument
    keep_alpha,         \* argument
    X, Y, Z,            \* image sizes, line 132
    x_overhead,         \* line 167 / 170
    y_overhead,         \* line 168 / 170
    intermediate_image, \* line 136
    result_image,       \* line 213
    x, y,               \* loop variables
    x_start, y_start,   \* start of the run being averaged
    number,             \* number of pixels summed in the run
    pixel,              \* pixel read last
    pixels_sum,         \* sum of the pixels of the run
    average_pixel,      \* average of the run flushed last (line 199 / 229)
    breached,           \* whether the iteration just run met the criterion (line 196 / 228)
    pc,                 \* position in filter
    returned,           \* the value filter returns
    shared,             \* positions of intermediate_image that hold the list of the source pixel
    exception,          \* the exception filter raised, "none" while it has raised none
    workers,            \* the run state of every line, where each line has a worker of its own
    source_image3D,     \* Averager: the image filtering starts from
    image3D,            \* Averager: the image shown and saved
    is_filtered,        \* Averager: flag
    is_saved,           \* Averager: flag
    sourcefilename,     \* Averager: the file of the source image
    maxcolors,          \* Averager: the largest channel value of the file loaded
    ini_threshold_x,    \* Averager: spinbox X
    ini_threshold_y,    \* Averager: spinbox Y
    ini_wraparound,     \* Averager: checkbox
    ini_keep_alpha,     \* Averager: checkbox
    enabled,            \* Averager: the commands the menu, the buttons and the bindings offer
    files,              \* the image every file holds
    events              \* the events Averager has handled, oldest first

options == <<threshold_x, threshold_y, wrap_around, keep_alpha>>
args == <<source_image, options>>
sizes == <<X, Y, Z, x_overhead, y_overhead>>
run == <<number, pixel, pixels_sum, average_pixel, breached>>
ini == <<ini_threshold_x, ini_threshold_y, ini_wraparound, ini_keep_alpha>>
host == <<source_image3D, image3D, is_filtered, is_saved, sourcefilename, maxcolors,
          ini, enabled, files, events>>
others == <<workers, host>>
vars == <<args, sizes, intermediate_image, result_image, x, y, x_start, y_start,
          run, pc, returned, exception, shared, others>>

----------------------------------------------------------------------------
(* Bounds of the model *)

\* longest scan line (row or column) of a line image
MaxLen == 4
\* largest channel value
MaxVal == 4
\* largest threshold
MaxThreshold == 1

----------------------------------------------------------------------------
(* Python helpers *)

Min(a, b) == IF a <= b THEN a ELSE b
Max(a, b) == IF a >= b THEN a ELSE b
Abs(a) == IF a >= 0 THEN a ELSE -a

\* seq[:n] of Python, n of either sign
Slice(seq, n) ==
    IF n >= 0 THEN SubSeq(seq, 1, Min(n, Len(seq)))
    ELSE SubSeq(seq, 1, Max(0, Len(seq) + n))

\* mutant: the sum is overwritten by the pixel, not added to
MapAdd_Overwrite(a, b) == [c \in 1..Min(Len(a), Len(b)) |-> a[c]]

\* [*map(add, a, b)]: map stops at the shorter argument
MapAdd(a, b) == [c \in 1..Min(Len(a), Len(b)) |-> a[c] + b[c]]

\* mutant: the average is taken over the color channels only
MapFloordiv_ColorOnly(sum, n, Z_) ==
    [c \in 1..Min(Len(sum), Max(IF Z_ = 1 \/ Z_ = 3 THEN Z_ ELSE Z_ - 1, 0)) |-> sum[c] \div n]

\* mutant: the average is rounded to the nearest integer
MapFloordiv_Round(sum, n, Z_) ==
    [c \in 1..Min(Len(sum), Max(Z_, 0)) |-> (2 * sum[c] + n) \div (2 * n)]

\* mutant: the sum is divided by the count less one
MapFloordiv_ByCountLessOne(sum, n, Z_) ==
    [c \in 1..Min(Len(sum), Max(Z_, 0)) |-> sum[c] \div Max(n - 1, 1)]

\* [*map(floordiv, pixels_sum, (number,) * Z)]
MapFloordiv(sum, n, Z_) == [c \in 1..Min(Len(sum), Max(Z_, 0)) |-> sum[c] \div n]

\* seq[i] of Python raises IndexError unless -len(seq) <= i < len(seq)
InRange(seq, i) == -Len(seq) <= i /\ i < Len(seq)
At(seq, i) == IF i >= 0 THEN seq[i + 1] ELSE seq[Len(seq) + i + 1]

----------------------------------------------------------------------------
(* The functions of filter/avgrow.py *)

\* create_image(X, Y, Z): Y rows of X pixels of Z zeroes
create_image(X_, Y_, Z_) == [r \in 1..Y_ |-> [k \in 1..X_ |-> [c \in 1..Z_ |-> 0]]]

\* mutant: the last channel is taken for alpha whatever the channel count
Z_COLOR_LastIsAlpha(Z_) == Min(Z_ - 1, 3)

\* mutant: alpha counts as a color channel
Z_COLOR_AlphaIncluded(Z_) == Z_

\* number of color channels, alpha excluded
Z_COLOR(Z_) == IF Z_ = 1 \/ Z_ = 3 THEN Z_ ELSE Min(Z_ - 1, 3)

\* x for wrap around, the resolver both modes use (cx = _cx_wrap)
cx(i, X_) == i % X_

\* y for wrap around, the resolver both modes use (cy = _cy_wrap)
cy(i, Y_) == i % Y_

\* mutant: the test of wrap_around negated
Overhead_Negated(wrap_around_, n) == IF wrap_around_ THEN 0 ELSE n

\* mutant: the overhead of wrap around mode in both modes
Overhead_Always(wrap_around_, n) == n

\* mutant: the overhead of wrap around mode is one short of a line
Overhead_OneShort(wrap_around_, n) == IF wrap_around_ THEN n - 1 ELSE 0

\* x_overhead, y_overhead: a whole further line in wrap around mode, else 0
Overhead(wrap_around_, n) == IF wrap_around_ THEN n ELSE 0

\* mutant: >= for >
criterion_x_Geq(channel, channel_sum, number_, threshold_x_) ==
    Abs(channel * number_ - channel_sum) >= threshold_x_ * number_

\* mutant: the sum is not divided by number
criterion_x_NoDivision(channel, channel_sum, number_, threshold_x_) ==
    Abs(channel - channel_sum) > threshold_x_

\* _criterion_x: abs(channel - (channel_sum / number)) > threshold_x.  The
\* division is Python's true division; with integer channels and threshold the
\* comparison is the exact one, stated here over the integers (number > 0).
criterion_x(channel, channel_sum, number_, threshold_x_) ==
    Abs(channel * number_ - channel_sum) > threshold_x_ * number_

\* mutant: >= for > in the vertical pass
criterion_y_Geq(channel, channel_sum, number_, threshold_y_) ==
    Abs(channel * number_ - channel_sum) >= threshold_y_ * number_

\* _criterion_y: abs(channel - (channel_sum / number)) > threshold_y
criterion_y(channel, channel_sum, number_, threshold_y_) ==
    Abs(channel * number_ - channel_sum) > threshold_y_ * number_

\* mutant: the first channel alone is tested
AnyCriterionX_FirstChannel(pixel_, sum, number_, threshold_x_, Z_) ==
    LET p == Slice(pixel_, Z_COLOR(Z_))
        s == Slice(sum, Z_COLOR(Z_))
    IN  \E c \in 1..Min(1, Min(Len(p), Len(s))) : criterion_x(p[c], s[c], number_, threshold_x_)

\* any(map(_criterion_x, pixel[:Z_COLOR], pixels_sum[:Z_COLOR]))
AnyCriterionX(pixel_, sum, number_, threshold_x_, Z_) ==
    LET p == Slice(pixel_, Z_COLOR(Z_))
        s == Slice(sum, Z_COLOR(Z_))
    IN  \E c \in 1..Min(Len(p), Len(s)) : criterion_x(p[c], s[c], number_, threshold_x_)

\* any(map(_criterion_y, pixel[:Z_COLOR], pixels_sum[:Z_COLOR]))
AnyCriterionY(pixel_, sum, number_, threshold_y_, Z_) ==
    LET p == Slice(pixel_, Z_COLOR(Z_))
        s == Slice(sum, Z_COLOR(Z_))
    IN  \E c \in 1..Min(Len(p), Len(s)) : criterion_y(p[c], s[c], number_, threshold_y_)

\* range(x_start, x - 1, 1): the scan indices the horizontal flush writes
\* mutant: the flush goes up to the pixel before the breaching one
FlushRangeX_ToBeforeBreach(x_start_, x_) == x_start_..(x_ - 1)

FlushRangeX(x_start_, x_) == x_start_..(x_ - 2)

\* a vertical flush that reaches the position before the breach
FlushRangeY_ToBeforeBreach(y_start_, y_) == y_start_..(y_ - 1)

\* range(y_start, y - 1, 1): the scan indices the vertical flush writes
FlushRangeY(y_start_, y_) == y_start_..(y_ - 2)

\* for i in range(x_start, x - 1, 1): intermediate_image[y][cx(i)] = average_pixel
FlushRow(im, y_, x_start_, x_, average, X_) ==
    [im EXCEPT ![y_ + 1] =
        [k \in 1..Len(im[y_ + 1]) |->
            IF \E i \in FlushRangeX(x_start_, x_) : cx(i, X_) + 1 = k
            THEN average ELSE im[y_ + 1][k]]]

\* mutant: the vertical flush writes every position before the breach
FlushColumn_UpToBreach(res, x_, y_start_, y_, average, Y_) ==
    [r \in 1..Len(res) |->
        IF \E i \in y_start_..(y_ - 1) : cy(i, Y_) + 1 = r
        THEN [res[r] EXCEPT ![x_ + 1] = average] ELSE res[r]]

\* for i in range(y_start, y - 1, 1): result_image[cy(i)][x] = average_pixel
FlushColumn(res, x_, y_start_, y_, average, Y_) ==
    [r \in 1..Len(res) |->
        IF \E i \in FlushRangeY(y_start_, y_) : cy(i, Y_) + 1 = r
        THEN [res[r] EXCEPT ![x_ + 1] = average] ELSE res[r]]

(* The run state of a scan line is the record                              *)
(*   [start, number, pixel, pixels_sum, average]                           *)
(* and `a' is the record of filter's arguments and sizes.                  *)

\* mutant: every row starts its run from the first pixel of the first row
HRowInit_FirstRow(a, y_, average) ==
    LET row == a.source_image[1]
    IN  IF ~InRange(row, 0)
        THEN [exception |-> "IndexError", start |-> 0, number |-> 1,
              pixel |-> <<>>, pixels_sum |-> <<>>, average |-> average]
        ELSE [exception |-> "none", start |-> 0, number |-> 1,
              pixel |-> row[1], pixels_sum |-> row[1], average |-> average]

\* lines 183-186: the run state at the start of row y_
HRowInit(a, y_, average) ==
    LET row == a.source_image[cy(y_, a.Y) + 1]
    IN  IF ~InRange(row, 0)
        THEN [exception |-> "IndexError", start |-> 0, number |-> 1,
              pixel |-> <<>>, pixels_sum |-> <<>>, average |-> average]
        ELSE [exception |-> "none", start |-> 0, number |-> 1,
              pixel |-> row[1], pixels_sum |-> row[1], average |-> average]

\* mutant: the pixel is read before the adding up, and it is the pixel read
\* that is added to the sum
HBody_ReadBeforeAdd(a, im, y_, x_, st) ==
    LET number1 == st.number + 1
        row == a.source_image[cy(y_, a.Y) + 1]
        pixel1 == row[cx(x_, a.X) + 1]
        sum1 == MapAdd(pixel1, st.pixels_sum)
        hit == AnyCriterionX(pixel1, sum1, number1, a.threshold_x, a.Z)
        average == MapFloordiv(sum1, number1, a.Z)
        flushed == IF hit THEN FlushRow(im, y_, st.start, x_, average, a.X) ELSE im
    IN  IF ~InRange(row, cx(x_, a.X))
        THEN [exception |-> "IndexError", start |-> st.start, number |-> number1,
              pixel |-> st.pixel, pixels_sum |-> st.pixels_sum, image |-> im,
              breach |-> FALSE, average |-> st.average]
        ELSE [exception |-> "none",
              start |-> IF hit THEN x_ ELSE st.start,
              number |-> IF hit THEN 1 ELSE number1,
              pixel |-> pixel1,
              pixels_sum |-> IF hit THEN pixel1 ELSE sum1,
              image |-> [flushed EXCEPT ![y_ + 1][cx(x_, a.X) + 1] = pixel1],
              breach |-> hit,
              average |-> IF hit THEN average ELSE st.average]

\* lines 188-206: one iteration of the inner loop of the horizontal pass
HBody(a, im, y_, x_, st) ==
    LET number1 == st.number + 1
        sum1 == MapAdd(st.pixel, st.pixels_sum)
        row == a.source_image[cy(y_, a.Y) + 1]
        pixel1 == row[cx(x_, a.X) + 1]
        hit == AnyCriterionX(pixel1, sum1, number1, a.threshold_x, a.Z)
        average == MapFloordiv(sum1, number1, a.Z)
        flushed == IF hit THEN FlushRow(im, y_, st.start, x_, average, a.X) ELSE im
    IN  IF ~InRange(row, cx(x_, a.X))
        THEN [exception |-> "IndexError", start |-> st.start, number |-> number1,
              pixel |-> st.pixel, pixels_sum |-> sum1, image |-> im, breach |-> FALSE,
              average |-> st.average]
        ELSE [exception |-> "none",
              start |-> IF hit THEN x_ ELSE st.start,
              number |-> IF hit THEN 1 ELSE number1,
              pixel |-> pixel1,
              pixels_sum |-> IF hit THEN pixel1 ELSE sum1,
              image |-> [flushed EXCEPT ![y_ + 1][cx(x_, a.X) + 1] = pixel1],
              breach |-> hit,
              average |-> IF hit THEN average ELSE st.average]

\* mutant: the seed of the first run of a column is summed but not counted
VColInit_SeedNotCounted(a, im, x_, average) ==
    [exception |-> "none", start |-> 0, number |-> 0,
     pixel |-> im[1][cx(x_, a.X) + 1], pixels_sum |-> im[1][cx(x_, a.X) + 1],
     average |-> average]

\* lines 220-223: the run state at the start of column x_
VColInit(a, im, x_, average) ==
    [exception |-> "none", start |-> 0, number |-> 1,
     pixel |-> im[1][cx(x_, a.X) + 1], pixels_sum |-> im[1][cx(x_, a.X) + 1],
     average |-> average]

\* mutant: the pixel read is written on a breach only
VBody_WriteOnBreach(a, im, res, x_, y_, st) ==
    LET number1 == st.number + 1
        sum1 == MapAdd(st.pixel, st.pixels_sum)
        pixel1 == im[cy(y_, a.Y) + 1][cx(x_, a.X) + 1]
        hit == AnyCriterionY(pixel1, sum1, number1, a.threshold_y, a.Z)
        average == MapFloordiv(sum1, number1, a.Z)
        flushed == IF hit THEN FlushColumn(res, x_, st.start, y_, average, a.Y) ELSE res
    IN  [exception |-> "none",
         start |-> IF hit THEN y_ ELSE st.start,
         number |-> IF hit THEN 1 ELSE number1,
         pixel |-> pixel1,
         pixels_sum |-> IF hit THEN pixel1 ELSE sum1,
         image |-> IF hit THEN [flushed EXCEPT ![cy(y_, a.Y) + 1][x_ + 1] = pixel1] ELSE res,
         breach |-> hit,
         average |-> IF hit THEN average ELSE st.average]

\* lines 225-235: one iteration of the inner loop of the vertical pass
VBody(a, im, res, x_, y_, st) ==
    LET number1 == st.number + 1
        sum1 == MapAdd(st.pixel, st.pixels_sum)
        pixel1 == im[cy(y_, a.Y) + 1][cx(x_, a.X) + 1]
        hit == AnyCriterionY(pixel1, sum1, number1, a.threshold_y, a.Z)
        average == MapFloordiv(sum1, number1, a.Z)
        flushed == IF hit THEN FlushColumn(res, x_, st.start, y_, average, a.Y) ELSE res
    IN  [exception |-> "none",
         start |-> IF hit THEN y_ ELSE st.start,
         number |-> IF hit THEN 1 ELSE number1,
         pixel |-> pixel1,
         pixels_sum |-> IF hit THEN pixel1 ELSE sum1,
         image |-> [flushed EXCEPT ![cy(y_, a.Y) + 1][x_ + 1] = pixel1],
         breach |-> hit,
         average |-> IF hit THEN average ELSE st.average]

\* mutant: the run left open at the end of the row is flushed
HLineEnd_Flush(a, im, y_, st) ==
    FlushRow(im, y_, st.start, a.X + a.x_overhead + 1,
             MapFloordiv(MapAdd(st.pixel, st.pixels_sum), st.number + 1, a.Z), a.X)

\* mutant: the end of the row counts as a breach at the scan index after the
\* last
HLineEnd_AsBreach(a, im, y_, st) ==
    FlushRow(im, y_, st.start, a.X + a.x_overhead,
             MapFloordiv(MapAdd(st.pixel, st.pixels_sum), st.number + 1, a.Z), a.X)

\* lines 187-206: the row after the inner loop has ended.  No statement
\* follows the inner loop in the body of the outer one: the run left open is
\* not flushed.
HLineEnd(a, im, y_, st) == im

\* lines 224-235: the column after the inner loop has ended, likewise
VLineEnd(a, res, x_, st) == res

\* The lists of the source that pixels_sum names when an iteration of the
\* horizontal pass starts: right after seeding (number = 1) pixels_sum is the
\* very list of the pixel the run starts at (lines 185-186, 205).  Positions
\* are <<row, column>>, from 1.
HSumList(a, y_, st) ==
    IF st.number = 1 THEN {<<cy(y_, a.Y) + 1, cx(st.start, a.X) + 1>>} ELSE {}

\* The same in the vertical pass (lines 222-223, 234): the run starts at a
\* pixel of intermediate_image, a list of the source where shared_ says so.
VSumList(a, x_, st, shared_) ==
    IF st.number = 1 THEN {<<cy(st.start, a.Y) + 1, cx(x_, a.X) + 1>>} \cap shared_ ELSE {}

\* mutant: the sum is added up in place, in the list pixels_sum names
AddUp_InPlace(src, lists, sum) ==
    [r \in 1..Len(src) |-> [k \in 1..Len(src[r]) |->
        IF <<r, k>> \in lists THEN sum ELSE src[r][k]]]

\* lines 193, 226: the source after pixels_sum = [*map(add, pixel, pixels_sum)].
\* map builds a new list and the name is bound to it: the list pixels_sum
\* named is left as it was.
AddUp(src, lists, sum) == src

\* lines 200-201, 206: the positions of intermediate_image that hold the list
\* of the source pixel after an iteration: the edge pixel is the list read from
\* the source, a flushed position holds the new list average_pixel
HShared(a, shared_, y_, x_, st, hit) ==
    (shared_ \ (IF hit THEN {<<y_ + 1, cx(i, a.X) + 1>> : i \in FlushRangeX(st.start, x_)}
                ELSE {}))
        \cup {<<y_ + 1, cx(x_, a.X) + 1>>}

\* mutant: alpha is taken from the filtered image
KeepAlpha_FromResult(a, res) ==
    LET ok == \A r \in 1..a.Y : \A k \in 1..a.X :
                  /\ InRange(a.source_image[r], k - 1)
                  /\ InRange(a.source_image[r][k], Z_COLOR(a.Z))
                  /\ InRange(res[r][k], Z_COLOR(a.Z))
    IN  IF ~ok THEN [exception |-> "IndexError", value |-> <<>>]
        ELSE [exception |-> "none",
              value |-> [r \in 1..a.Y |-> [k \in 1..a.X |->
                  Slice(res[r][k], Z_COLOR(a.Z)) \o <<At(res[r][k], Z_COLOR(a.Z))>>]]]

\* line 245: [*result_image[y][x][:Z_COLOR], source_image[y][x][Z_COLOR]] for all x, y
KeepAlpha(a, res) ==
    LET ok == \A r \in 1..a.Y : \A k \in 1..a.X :
                  /\ InRange(a.source_image[r], k - 1)
                  /\ InRange(a.source_image[r][k], Z_COLOR(a.Z))
    IN  IF ~ok THEN [exception |-> "IndexError", value |-> <<>>]
        ELSE [exception |-> "none",
              value |-> [r \in 1..a.Y |-> [k \in 1..a.X |->
                  Slice(res[r][k], Z_COLOR(a.Z))
                      \o <<At(a.source_image[r][k], Z_COLOR(a.Z))>>]]]

\* mutant: no test for images without alpha
AlphaHandling_NoTest(a, res) ==
    IF a.keep_alpha THEN KeepAlpha(a, res)
    ELSE [exception |-> "none", value |-> res]

\* lines 240-248: alpha handling
AlphaHandling(a, res) ==
    IF a.Z = 1 \/ a.Z = 3 THEN [exception |-> "none", value |-> res]
    ELSE IF a.keep_alpha THEN KeepAlpha(a, res)
    ELSE [exception |-> "none", value |-> res]

\* lines 131-170: the sizes and overheads of a call, or the exception of line 132
Arguments(src, tx, ty, wrap, keep) ==
    IF ~InRange(src, 0) \/ ~InRange(src[1], 0)
    THEN [exception |-> "IndexError"]
    ELSE [exception |-> "none",
          source_image |-> src, threshold_x |-> tx, threshold_y |-> ty,
          wrap_around |-> wrap, keep_alpha |-> keep,
          Y |-> Len(src), X |-> Len(src[1]), Z |-> Len(src[1][1]),
          x_overhead |-> Overhead(wrap, Len(src[1])),
          y_overhead |-> Overhead(wrap, Len(src))]

(* filter as a function of its arguments: the loops of lines 182-206 and    *)
(* 219-235 as recursions over the same loop bodies.  The value is a record *)
(* [exception, value]: the image returned, or the exception raised.        *)

RECURSIVE HLine(_, _, _, _, _)
\* lines 187-206: the iterations x_, x_ + 1, ... of row y_
HLine(a, im, y_, x_, st) ==
    IF x_ >= a.X + a.x_overhead
    THEN [exception |-> "none", image |-> HLineEnd(a, im, y_, st), average |-> st.average]
    ELSE LET r == HBody(a, im, y_, x_, st)
         IN  IF r.exception # "none" THEN [exception |-> r.exception, image |-> im, average |-> st.average]
             ELSE HLine(a, r.image, y_, x_ + 1, r)

RECURSIVE HorizontalPass(_, _, _, _)
\* lines 182-206: the rows y_, y_ + 1, ...
HorizontalPass(a, im, y_, average) ==
    IF y_ >= a.Y THEN [exception |-> "none", image |-> im, average |-> average]
    ELSE LET s0 == HRowInit(a, y_, average)
             r == HLine(a, im, y_, 0, s0)
         IN  IF s0.exception # "none" THEN [exception |-> s0.exception, image |-> im, average |-> average]
             ELSE IF r.exception # "none" THEN r
             ELSE HorizontalPass(a, r.image, y_ + 1, r.average)

RECURSIVE VLine(_, _, _, _, _, _)
\* lines 224-235: the iterations y_, y_ + 1, ... of column x_
VLine(a, im, res, x_, y_, st) ==
    IF y_ >= a.Y + a.y_overhead
    THEN [exception |-> "none", image |-> VLineEnd(a, res, x_, st), average |-> st.average]
    ELSE LET r == VBody(a, im, res, x_, y_, st)
         IN  IF r.exception # "none" THEN [exception |-> r.exception, image |-> res, average |-> st.average]
             ELSE VLine(a, im, r.image, x_, y_ + 1, r)

RECURSIVE VerticalPass(_, _, _, _, _)
\* lines 219-235: the columns x_, x_ + 1, ...
VerticalPass(a, im, res, x_, average) ==
    IF x_ >= a.X THEN [exception |-> "none", image |-> res]
    ELSE LET r == VLine(a, im, res, x_, 0, VColInit(a, im, x_, average))
         IN  IF r.exception # "none" THEN [exception |-> r.exception, image |-> res]
             ELSE VerticalPass(a, im, r.image, x_ + 1, r.average)

\* filter(source_image, threshold_x, threshold_y, wrap_around, keep_alpha)
filter(src, tx, ty, wrap, keep) ==
    LET a == Arguments(src, tx, ty, wrap, keep)
        h == HorizontalPass(a, create_image(a.X, a.Y, a.Z), 0, <<>>)
        v == VerticalPass(a, h.image, create_image(a.X, a.Y, a.Z), 0, h.average)
    IN  IF a.exception # "none" THEN [exception |-> a.exception, value |-> <<>>]
        ELSE IF h.exception # "none" THEN [exception |-> h.exception, value |-> <<>>]
        ELSE IF v.exception # "none" THEN [exception |-> v.exception, value |-> <<>>]
        ELSE AlphaHandling(a, v.image)

----------------------------------------------------------------------------
(* The inputs of the model *)

\* the channel counts of L, LA, RGB and RGBA images
Channels == {1, 2, 3, 4}

\* The pixels images are made of, three per channel count.  The second and
\* the third differ by 1 in one color channel; the first differs from both
\* by MaxVal or MaxVal - 1 in a color channel; alpha, where there is one,
\* differs by MaxVal between the second and the third.
PaletteSeq(Z_) ==
    CASE Z_ = 1 -> <<(<<0>>), (<<MaxVal - 1>>), (<<MaxVal>>)>>
      [] Z_ = 2 -> << <<0, MaxVal>>, <<MaxVal - 1, MaxVal>>, <<MaxVal, 0>> >>
      [] Z_ = 3 -> << <<MaxVal, MaxVal, 0>>, <<MaxVal - 1, MaxVal, MaxVal>>,
                      <<MaxVal, MaxVal, MaxVal>> >>
      [] Z_ = 4 -> << <<MaxVal, MaxVal, 0, MaxVal>>, <<MaxVal - 1, MaxVal, MaxVal, MaxVal>>,
                      <<MaxVal, MaxVal, MaxVal, 0>> >>

Palette(Z_) == {PaletteSeq(Z_)[i] : i \in 1..3}

\* <<height, width>> of the line images: single rows and single columns
Shapes == {<<1, w>> : w \in 1..MaxLen} \cup {<<h, 1>> : h \in 1..MaxLen}

LineImages(Z_) == UNION {[1..s[1] -> [1..s[2] -> Palette(Z_)]] : s \in Shapes}

\* 3 x 3 images: any pixels in the top left 2 x 2 block, the first pixel of
\* the palette in the last row and the last column
GridImages(Z_) ==
    {[r \in 1..3 |-> [k \in 1..3 |->
          IF r <= 2 /\ k <= 2 THEN b[r][k] ELSE PaletteSeq(Z_)[1]]] :
     b \in [1..2 -> [1..2 -> Palette(Z_)]]}

ValidImages == UNION {LineImages(z) \cup GridImages(z) : z \in Channels}

\* the preconditions of filter on its image: at least one row, one pixel, rows
\* of one length, pixels of one channel count among L, LA, RGB, RGBA
WellFormed(src) ==
    /\ Len(src) >= 1 /\ Len(src[1]) >= 1
    /\ \A r \in 1..Len(src) :
          /\ Len(src[r]) = Len(src[1])
          /\ \A k \in 1..Len(src[r]) : Len(src[r][k]) = Len(src[1][1])
    /\ Len(src[1][1]) \in Channels

\* images of up to 2 rows of up to 2 pixels of 1 or 2 channels that break a
\* precondition: no row, no pixel in a row, rows of different lengths, pixels
\* of different channel counts
MalformedRows == UNION {[1..w -> {<<MaxVal>>, <<MaxVal - 1, 0>>}] : w \in 0..2}

MalformedImages == {img \in UNION {[1..h -> MalformedRows] : h \in 0..2} : ~WellFormed(img)}

\* single rows of up to 3 pixels of a channel count outside Channels: 5
\* channels (three pixels that differ as those of the palette do in a color
\* channel, and in the two channels past the colors) and no channel at all
UnsupportedPixels(Z_) ==
    IF Z_ = 5 THEN {<<0, MaxVal, MaxVal, 0, MaxVal>>,
                    <<MaxVal - 1, MaxVal, MaxVal, MaxVal, MaxVal>>,
                    <<MaxVal, MaxVal, MaxVal, MaxVal, 0>>}
    ELSE {<<>>}

UnsupportedImages ==
    UNION {[1..1 -> [1..w -> UnsupportedPixels(z)]] : w \in 1..3, z \in {0, 5}}

Thresholds == {0, MaxThreshold}

\* scenario A: a 1 x 5 grayscale row, repeat edge mode
ScenarioA == [source_image |-> << << <<10>>, <<10>>, <<10>>, <<200>>, <<10>> >> >>,
              threshold_x |-> 5, thresholds_y |-> 0..5]

InitArguments ==
    \/ /\ source_image \in ValidImages \cup MalformedImages \cup UnsupportedImages
       /\ threshold_x \in Thresholds
       /\ threshold_y \in Thresholds
       /\ wrap_around \in BOOLEAN
       /\ keep_alpha \in BOOLEAN
    \/ /\ source_image = ScenarioA.source_image
       /\ threshold_x = ScenarioA.threshold_x
       /\ threshold_y \in ScenarioA.thresholds_y
       /\ wrap_around = FALSE
       /\ keep_alpha \in BOOLEAN

----------------------------------------------------------------------------
(* filter, step by step *)

\* filter's arguments and sizes, as the loop bodies take them
A == [source_image |-> source_image, threshold_x |-> threshold_x,
      threshold_y |-> threshold_y, wrap_around |-> wrap_around,
      keep_alpha |-> keep_alpha, X |-> X, Y |-> Y, Z |-> Z,
      x_overhead |-> x_overhead, y_overhead |-> y_overhead]

\* the run state of the scan line in progress
RunState == [start |-> IF pc = "v_loop" THEN y_start ELSE x_start, number |-> number,
             pixel |-> pixel, pixels_sum |-> pixels_sum, average |-> average_pixel]

\* filter is called on its own: no workers, no Averager
NoWorkers == workers = <<>>

NoHost ==
    /\ source_image3D = <<>> /\ image3D = <<>>
    /\ is_filtered = FALSE /\ is_saved = FALSE
    /\ sourcefilename = "" /\ maxcolors = 0
    /\ ini_threshold_x = 0 /\ ini_threshold_y = 0
    /\ ini_wraparound = FALSE /\ ini_keep_alpha = FALSE
    /\ enabled = {} /\ files = <<>> /\ events = <<>>

Init ==
    /\ InitArguments
    /\ X = 0 /\ Y = 0 /\ Z = 0 /\ x_overhead = 0 /\ y_overhead = 0
    /\ intermediate_image = <<>> /\ result_image = <<>>
    /\ x = 0 /\ y = 0 /\ x_start = 0 /\ y_start = 0
    /\ number = 0 /\ pixel = <<>> /\ pixels_sum = <<>>
    /\ average_pixel = <<>> /\ breached = FALSE
    /\ pc = "entry" /\ returned = <<>> /\ exception = "none"
    /\ shared = {}
    /\ NoWorkers /\ NoHost

\* the exception leaves filter: nothing is returned
Raise(e) ==
    /\ pc' = "raised" /\ exception' = e
    /\ UNCHANGED <<others, args, sizes, intermediate_image, result_image, x, y, x_start, y_start,
                   run, returned, shared>>

\* lines 131-170: sizes, the empty intermediate image, overheads
Enter ==
    /\ pc = "entry"
    /\ LET a == Arguments(source_image, threshold_x, threshold_y, wrap_around, keep_alpha)
       IN  IF a.exception # "none" THEN Raise(a.exception)
           ELSE /\ X' = a.X /\ Y' = a.Y /\ Z' = a.Z
                /\ x_overhead' = a.x_overhead /\ y_overhead' = a.y_overhead
                /\ intermediate_image' = create_image(a.X, a.Y, a.Z)
                /\ y' = 0 /\ pc' = "h_row"
                /\ UNCHANGED <<others, args, result_image, x, x_start, y_start, run, returned,
                               exception, shared>>

\* lines 182-186: the next row of the horizontal pass
HRowStart ==
    /\ pc = "h_row" /\ y < Y
    /\ LET s0 == HRowInit(A, y, average_pixel)
       IN  IF s0.exception # "none" THEN Raise(s0.exception)
           ELSE /\ x_start' = s0.start /\ number' = s0.number
                /\ pixel' = s0.pixel /\ pixels_sum' = s0.pixels_sum
                /\ x' = 0 /\ pc' = "h_loop"
                /\ UNCHANGED <<others, args, sizes, intermediate_image, result_image, y, y_start,
                               average_pixel, breached, returned, exception, shared>>

\* lines 187-206: one iteration of the inner loop; after the last one of the row,
\* the outer loop goes to the next row
HIter ==
    /\ pc = "h_loop" /\ x < X + x_overhead
    /\ LET r == HBody(A, intermediate_image, y, x, RunState)
       IN  IF r.exception # "none" THEN Raise(r.exception)
           ELSE /\ x_start' = r.start /\ number' = r.number
                /\ pixel' = r.pixel /\ pixels_sum' = r.pixels_sum
                /\ average_pixel' = r.average /\ breached' = r.breach
                /\ intermediate_image' = IF x + 1 < X + x_overhead THEN r.image
                                         ELSE HLineEnd(A, r.image, y, r)
                /\ source_image' = AddUp(source_image, HSumList(A, y, RunState),
                                         MapAdd(pixel, pixels_sum))
                /\ shared' = HShared(A, shared, y, x, RunState, r.breach)
                /\ x' = x + 1
                /\ IF x + 1 < X + x_overhead
                   THEN pc' = "h_loop" /\ y' = y
                   ELSE pc' = "h_row" /\ y' = y + 1
                /\ UNCHANGED <<others, options, sizes, result_image, y_start, returned, exception>>

\* line 213: the horizontal pass is over, the empty final image
VerticalStart ==
    /\ pc = "h_row" /\ y >= Y
    /\ result_image' = create_image(X, Y, Z)
    /\ x' = 0 /\ pc' = "v_col"
    /\ UNCHANGED <<others, args, sizes, intermediate_image, y, x_start, y_start, run, returned,
                   exception, shared>>

\* lines 219-223: the next column of the vertical pass
VColStart ==
    /\ pc = "v_col" /\ x < X
    /\ LET s0 == VColInit(A, intermediate_image, x, average_pixel)
       IN  /\ y_start' = s0.start /\ number' = s0.number
           /\ pixel' = s0.pixel /\ pixels_sum' = s0.pixels_sum
           /\ y' = 0 /\ pc' = "v_loop"
           /\ UNCHANGED <<others, args, sizes, intermediate_image, result_image, x, x_start,
                          average_pixel, breached, returned, exception, shared>>

\* lines 224-235: one iteration of the inner loop; after the last one of the
\* column, the outer loop goes to the next column
VIter ==
    /\ pc = "v_loop" /\ y < Y + y_overhead
    /\ LET r == VBody(A, intermediate_image, result_image, x, y, RunState)
       IN  /\ y_start' = r.start /\ number' = r.number
           /\ pixel' = r.pixel /\ pixels_sum' = r.pixels_sum
           /\ average_pixel' = r.average /\ breached' = r.breach
           /\ result_image' = IF y + 1 < Y + y_overhead THEN r.image
                                ELSE VLineEnd(A, r.image, x, r)
           /\ source_image' = AddUp(source_image, VSumList(A, x, RunState, shared),
                                    MapAdd(pixel, pixels_sum))
           /\ y' = y + 1
           /\ IF y + 1 < Y + y_overhead
              THEN pc' = "v_loop" /\ x' = x
              ELSE pc' = "v_col" /\ x' = x + 1
           /\ UNCHANGED <<others, options, sizes, intermediate_image, x_start, returned, exception,
                          shared>>

\* lines 240-248: the vertical pass is over, alpha handling and return
Return ==
    /\ pc = "v_col" /\ x >= X
    /\ LET r == AlphaHandling(A, result_image)
       IN  IF r.exception # "none" THEN Raise(r.exception)
           ELSE /\ returned' = r.value /\ pc' = "done"
                /\ UNCHANGED <<others, args, sizes, intermediate_image, result_image, x, y,
                               x_start, y_start, run, exception, shared>>

Next == Enter \/ HRowStart \/ HIter \/ VerticalStart \/ VColStart \/ VIter \/ Return

Spec == Init /\ [][Next]_vars

----------------------------------------------------------------------------
(* filter with a worker per line: the body of the outer loop of each pass  *)
(* (lines 183-206, 220-235) is run for every row, then for every column,   *)
(* by a worker with a run state of its own; the workers of a pass are      *)
(* interleaved iteration by iteration on the images they share, and the    *)
(* vertical pass starts when every row worker has ended.                   *)

\* 2 x 2 images of any pixels of the palette
SquareImages(Z_) == [1..2 -> [1..2 -> Palette(Z_)]]

WorkersArguments ==
    \/ /\ source_image \in SquareImages(1) \cup SquareImages(2)
       /\ threshold_x \in Thresholds
       /\ threshold_y \in Thresholds
       /\ wrap_around \in BOOLEAN
       /\ keep_alpha \in BOOLEAN
    \/ /\ source_image \in GridImages(1)
       /\ threshold_x = MaxThreshold
       /\ threshold_y = MaxThreshold
       /\ wrap_around \in BOOLEAN
       /\ keep_alpha = FALSE

\* the run state of a worker: that of the loop body and `at', the inner loop
\* variable
Worker(at, st) ==
    [at |-> at, start |-> st.start, number |-> st.number, pixel |-> st.pixel,
     pixels_sum |-> st.pixels_sum, average |-> st.average]

\* lines 183-186 for every row: the row workers before their first iteration
RowWorkers(a) == [r \in 0..(a.Y - 1) |-> Worker(0, HRowInit(a, r, <<>>))]

\* lines 220-223 for every column: the column workers before their first iteration
ColumnWorkers(a, im) == [k \in 0..(a.X - 1) |-> Worker(0, VColInit(a, im, k, <<>>))]

\* lines 131-170 and 183-186: sizes, overheads, the empty intermediate image
WorkersInit ==
    /\ WorkersArguments
    /\ LET a == Arguments(source_image, threshold_x, threshold_y, wrap_around, keep_alpha)
       IN  /\ X = a.X /\ Y = a.Y /\ Z = a.Z
           /\ x_overhead = a.x_overhead /\ y_overhead = a.y_overhead
           /\ intermediate_image = create_image(a.X, a.Y, a.Z)
           /\ workers = RowWorkers(a)
    /\ result_image = <<>>
    /\ x = 0 /\ y = 0 /\ x_start = 0 /\ y_start = 0
    /\ number = 0 /\ pixel = <<>> /\ pixels_sum = <<>>
    /\ average_pixel = <<>> /\ breached = FALSE
    /\ pc = "rows" /\ returned = <<>> /\ exception = "none"
    /\ shared = {}
    /\ NoHost

\* lines 187-206: the worker of row r runs one iteration of the inner loop
RowStep(r) ==
    /\ pc = "rows" /\ workers[r].at < X + x_overhead
    /\ LET st == workers[r]
           res == HBody(A, intermediate_image, r, st.at, st)
       IN  /\ workers' = [workers EXCEPT ![r] = Worker(st.at + 1, res)]
           /\ intermediate_image' = IF st.at + 1 < X + x_overhead THEN res.image
                                    ELSE HLineEnd(A, res.image, r, res)
           /\ source_image' = AddUp(source_image, HSumList(A, r, st),
                                    MapAdd(st.pixel, st.pixels_sum))
           /\ shared' = HShared(A, shared, r, st.at, st, res.breach)
    /\ UNCHANGED <<options, sizes, result_image, x, y, x_start, y_start, run, pc,
                   returned, exception, host>>

\* line 213 and lines 220-223: every row has ended, the empty final image
Barrier ==
    /\ pc = "rows" /\ \A r \in DOMAIN workers : workers[r].at >= X + x_overhead
    /\ result_image' = create_image(X, Y, Z)
    /\ workers' = ColumnWorkers(A, intermediate_image)
    /\ pc' = "columns"
    /\ UNCHANGED <<args, sizes, intermediate_image, x, y, x_start, y_start, run,
                   returned, exception, shared, host>>

\* lines 224-235: the worker of column k runs one iteration of the inner loop
ColumnStep(k) ==
    /\ pc = "columns" /\ workers[k].at < Y + y_overhead
    /\ LET st == workers[k]
           res == VBody(A, intermediate_image, result_image, k, st.at, st)
       IN  /\ workers' = [workers EXCEPT ![k] = Worker(st.at + 1, res)]
           /\ result_image' = IF st.at + 1 < Y + y_overhead THEN res.image
                              ELSE VLineEnd(A, res.image, k, res)
           /\ source_image' = AddUp(source_image, VSumList(A, k, st, shared),
                                    MapAdd(st.pixel, st.pixels_sum))
    /\ UNCHANGED <<options, sizes, intermediate_image, x, y, x_start, y_start, run, pc,
                   returned, exception, shared, host>>

\* lines 240-248: every column has ended, alpha handling and return
WorkersReturn ==
    /\ pc = "columns" /\ \A k \in DOMAIN workers : workers[k].at >= Y + y_overhead
    /\ returned' = AlphaHandling(A, result_image).value
    /\ pc' = "done"
    /\ UNCHANGED <<args, sizes, intermediate_image, result_image, x, y, x_start, y_start,
                   run, exception, shared, others>>

WorkersNext ==
    \/ \E r \in DOMAIN workers : RowStep(r)
    \/ Barrier
    \/ \E k \in DOMAIN workers : ColumnStep(k)
    \/ WorkersReturn

WorkersSpec == WorkersInit /\ [][WorkersNext]_vars

----------------------------------------------------------------------------
(* Averager.py: the events of the program that loads an image, filters it  *)
(* and saves the result.  A file name is the record of its stem and its    *)
(* suffix (Path(name).suffix), a file dialog that was cancelled returns    *)
(* the empty name; a file is the sequence of what was written to it, and   *)
(* holds what was written last.  Images are values: deepcopy, which makes  *)
(* image3D and source_image3D separate lists, is the value itself.         *)

MaxEvents == 5

Name(stem, suffix) == [stem |-> stem, suffix |-> suffix]

\* askopenfilename, asksaveasfilename: the result of a cancelled dialog
NoName == Name("", "")

\* the files there are to open when Averager starts: an 8 bit LA image, a 4
\* bit grayscale image, a bitmap; and the names Save as... is given
OpenNames == {Name("a", ".png"), Name("b", ".pgm"), Name("c", ".pbm")}
SaveAsNames == {Name("r", ".png"), Name("r", ".pgm")}

Stored(name) ==
    CASE name.suffix = ".png" ->
            [image |-> << << <<0, 4>>, <<3, 4>>, <<4, 0>>, <<0, 4>> >> >>, maxcolors |-> 255]
      [] name.suffix = ".pgm" ->
            [image |-> << << <<0>>, <<2>>, <<1>>, <<3>> >> >>, maxcolors |-> 15]
      [] OTHER ->
            [image |-> << << <<0>>, <<1>>, <<1>>, <<0>> >> >>, maxcolors |-> 1]

\* the values of the two spinboxes and the two checkboxes: those Averager
\* starts with (lines 593-611) and two the user sets
ParameterSets ==
    {<<16, 8, FALSE, FALSE>>, <<1, 1, FALSE, FALSE>>, <<17, 17, TRUE, TRUE>>}

\* lines 503-505, 569-576, 593-611: the state Averager starts in.  is_saved is
\* not bound before the first GetSource, and nothing reads it before.
HostInit ==
    /\ source_image3D = <<>> /\ image3D = <<>>
    /\ is_filtered = FALSE /\ is_saved \in BOOLEAN
    /\ sourcefilename = NoName /\ maxcolors = 0
    /\ ini_threshold_x = 16 /\ ini_threshold_y = 8
    /\ ini_wraparound = FALSE /\ ini_keep_alpha = FALSE
    /\ enabled = {"GetSource"}
    /\ files = [n \in OpenNames \cup SaveAsNames |->
                   IF n \in OpenNames THEN <<Stored(n)>> ELSE <<>>]
    /\ events = <<>>
    /\ source_image = <<>> /\ threshold_x = 0 /\ threshold_y = 0
    /\ wrap_around = FALSE /\ keep_alpha = FALSE
    /\ X = 0 /\ Y = 0 /\ Z = 0 /\ x_overhead = 0 /\ y_overhead = 0
    /\ intermediate_image = <<>> /\ result_image = <<>>
    /\ x = 0 /\ y = 0 /\ x_start = 0 /\ y_start = 0
    /\ number = 0 /\ pixel = <<>> /\ pixels_sum = <<>>
    /\ average_pixel = <<>> /\ breached = FALSE
    /\ pc = "host" /\ returned = <<>> /\ exception = "none"
    /\ shared = {}
    /\ NoWorkers

\* the variables of filter and of its workers: Averager has none of them
filter_vars == <<args, sizes, intermediate_image, result_image, x, y, x_start, y_start,
                 run, pc, returned, exception, shared, workers>>

\* an event is handled: it is logged
Handled(event) == Len(events) < MaxEvents /\ events' = Append(events, event)

\* the file after list2png, list2pnm wrote the image to it
Written(name, image, maxcolors_) ==
    [files EXCEPT ![name] = Append(@, [image |-> image, maxcolors |-> maxcolors_])]

\* lines 137-247: Open..., a file chosen in the dialog
GetSource(name) ==
    /\ "GetSource" \in enabled /\ files[name] # <<>>
    /\ Handled("GetSource")
    /\ is_filtered' = FALSE /\ is_saved' = TRUE
    /\ sourcefilename' = name
    /\ LET file == files[name][Len(files[name])]
       IN  /\ maxcolors' = file.maxcolors
           /\ source_image3D' = file.image
           /\ image3D' = file.image
    /\ enabled' = enabled \cup {"RunFilter", "SaveAs", "SetParameters"}
    /\ UNCHANGED <<ini, files, filter_vars>>

\* lines 137-152: Open..., the dialog cancelled
GetSourceCancelled ==
    /\ "GetSource" \in enabled
    /\ Handled("GetSourceCancelled")
    /\ is_filtered' = FALSE /\ is_saved' = TRUE
    /\ sourcefilename' = NoName
    /\ UNCHANGED <<source_image3D, image3D, maxcolors, ini, enabled, files, filter_vars>>

\* the user sets the spinboxes and the checkboxes, which UINormal enables
SetParameters(p) ==
    /\ "SetParameters" \in enabled
    /\ p # ini
    /\ ini_threshold_x' = p[1] /\ ini_threshold_y' = p[2]
    /\ ini_wraparound' = p[3] /\ ini_keep_alpha' = p[4]
    /\ UNCHANGED <<source_image3D, image3D, is_filtered, is_saved, sourcefilename,
                   maxcolors, enabled, files, events, filter_vars>>

\* mutant: the image shown is filtered
FilterInput_Result == image3D

\* line 268: the image RunFilter filters
FilterInput == source_image3D

\* lines 258-259: maxcolors * ini_threshold.get() // 255
Rescaled(maxcolors_, value) == (maxcolors_ * value) \div 255

\* lines 250-287: Filter
RunFilter ==
    /\ "RunFilter" \in enabled
    /\ Handled("RunFilter")
    /\ image3D' = filter(FilterInput, Rescaled(maxcolors, ini_threshold_x),
                         Rescaled(maxcolors, ini_threshold_y),
                         ini_wraparound, ini_keep_alpha).value
    /\ is_filtered' = TRUE /\ is_saved' = FALSE
    /\ enabled' = enabled \cup {"Save"}
    /\ UNCHANGED <<source_image3D, sourcefilename, maxcolors, ini, files, filter_vars>>

\* lines 370-392: the file saved becomes the source
onSave(resultfilename) ==
    /\ sourcefilename' = resultfilename
    /\ source_image3D' = image3D
    /\ enabled' = enabled \ {"Save"}

\* lines 401-404: Save returns at once
SaveGuard == is_saved \/ ~is_filtered

\* lines 395-418: Save
Save ==
    /\ "Save" \in enabled
    /\ Handled("Save")
    /\ IF SaveGuard
       THEN UNCHANGED <<source_image3D, is_filtered, is_saved, sourcefilename, enabled,
                        files>>
       ELSE /\ files' = IF sourcefilename.suffix \in {".png", ".ppm", ".pgm", ".pnm"}
                        THEN Written(sourcefilename, image3D, maxcolors)
                        ELSE files
            /\ is_saved' = TRUE /\ is_filtered' = FALSE
            /\ onSave(sourcefilename)
    /\ UNCHANGED <<image3D, maxcolors, ini, filter_vars>>

\* lines 421-475: Save as..., a name given in the dialog
SaveAs(name) ==
    /\ "SaveAs" \in enabled /\ name.suffix \in {".png", ".ppm", ".pgm"}
    /\ Handled("SaveAs")
    /\ files' = Written(name, image3D, maxcolors)
    /\ is_saved' = TRUE /\ is_filtered' = FALSE
    /\ onSave(name)
    /\ UNCHANGED <<image3D, maxcolors, ini, filter_vars>>

\* lines 421-460: Save as..., the dialog cancelled
SaveAsCancelled ==
    /\ "SaveAs" \in enabled
    /\ Handled("SaveAsCancelled")
    /\ UNCHANGED <<source_image3D, image3D, is_filtered, is_saved, sourcefilename,
                   maxcolors, ini, enabled, files, filter_vars>>

HostNext ==
    \/ \E name \in DOMAIN files : GetSource(name)
    \/ GetSourceCancelled
    \/ \E p \in ParameterSets : SetParameters(p)
    \/ RunFilter
    \/ Save
    \/ \E name \in SaveAsNames : SaveAs(name)
    \/ SaveAsCancelled

HostSpec == HostInit /\ [][HostNext]_vars

----------------------------------------------------------------------------
(* Properties *)

\* the image filter returned, for a call that returned one
Returned == pc = "done"

\* the color channels of a pixel of a Z_-channel image: all but the alpha of
\* LA and RGBA; its alpha
Color(p, Z_) == SubSeq(p, 1, IF Z_ \in {2, 4} THEN Z_ - 1 ELSE Z_)
Alpha(p, Z_) == p[Z_]

\* C1. Shape preservation: for every well-formed source (H >= 1, W >= 1,
\* Z in 1..4), any thresholds and flags, the image filter returns has H rows,
\* W pixels in every row and Z channel values in every pixel.
C1_ShapePreserved ==
    (Returned /\ WellFormed(source_image)) =>
        /\ Len(returned) = Len(source_image)
        /\ \A r \in 1..Len(returned) :
              /\ Len(returned[r]) = Len(source_image[1])
              /\ \A k \in 1..Len(returned[r]) :
                    Len(returned[r][k]) = Len(source_image[1][1])

\* C1 happens: an RGBA 3 x 3 image returned with alpha kept and pixels averaged
C1_Witness ==
    /\ Returned /\ WellFormed(source_image)
    /\ Z = 4 /\ Y = 3 /\ X = 3 /\ keep_alpha /\ wrap_around
    /\ \E r \in 1..3, k \in 1..3 : Color(returned[r][k], 4) # Color(source_image[r][k], 4)

\* C2. Alpha policy, keep_alpha true and Z in {2, 4}: every pixel of the
\* returned image has the alpha of the source pixel at its place, and the color
\* channels filter returns for the same arguments with keep_alpha false.
C2_AlphaKept ==
    (Returned /\ WellFormed(source_image) /\ keep_alpha /\ Z \in {2, 4}) =>
        LET other == filter(source_image, threshold_x, threshold_y, wrap_around, FALSE)
        IN  /\ other.exception = "none"
            /\ \A r \in 1..Y : \A k \in 1..X :
                  /\ Alpha(returned[r][k], Z) = Alpha(source_image[r][k], Z)
                  /\ Color(returned[r][k], Z) = Color(other.value[r][k], Z)

\* C2 happens: alpha is kept where filtering it would have changed it
C2_Witness ==
    /\ Returned /\ WellFormed(source_image) /\ keep_alpha /\ Z \in {2, 4}
    /\ \E r \in 1..Y : \E k \in 1..X :
          /\ Alpha(result_image[r][k], Z) # Alpha(source_image[r][k], Z)
          /\ Alpha(returned[r][k], Z) = Alpha(source_image[r][k], Z)
          /\ Color(returned[r][k], Z) # Color(source_image[r][k], Z)

\* C3. Without an alpha channel (Z in {1, 3}) keep_alpha has no effect: filter
\* returns the same image for the other value of the flag.
C3_FlagIrrelevant ==
    (Returned /\ WellFormed(source_image) /\ Z \in {1, 3}) =>
        filter(source_image, threshold_x, threshold_y, wrap_around, ~keep_alpha)
            = [exception |-> "none", value |-> returned]

\* C3 happens: an RGB image filtered with keep_alpha true, pixels averaged
C3_Witness ==
    /\ Returned /\ WellFormed(source_image) /\ Z = 3 /\ keep_alpha
    /\ returned # source_image

\* every pixel of the image is the same
Uniform(src) == \A r \in 1..Len(src) : \A k \in 1..Len(src[r]) : src[r][k] = src[1][1]

\* C4. Uniform images are fixed points: when every pixel of the source is the
\* same, no iteration of either pass meets the criterion, for thresholds >= 0, in
\* both modes, and filter returns an image equal to the source.
C4_UniformFixedPoint ==
    (WellFormed(source_image) /\ Uniform(source_image)) =>
        /\ ~breached
        /\ pc # "raised"
        /\ Returned => returned = source_image

\* C4 happens: a uniform 3 x 3 image went through both passes in wrap around mode
C4_Witness ==
    /\ Returned /\ WellFormed(source_image) /\ Uniform(source_image)
    /\ Y = 3 /\ X = 3 /\ wrap_around /\ threshold_x = 0 /\ threshold_y = 0

\* the column indices the iteration about to run reads, writes or may flush
HIndices == {x} \cup FlushRangeX(x_start, x)

\* the row indices the iteration about to run reads, writes or may flush
VIndices == {y} \cup FlushRangeY(y_start, y)

\* C5. With wrap_around false every column index the filter reads or writes
\* (the scan index and every flush index) lies in [0, W) and every row index in
\* [0, H), so that the modulo resolver leaves it as it is.
C5_ClampInRange ==
    (WellFormed(source_image) /\ ~wrap_around) =>
        /\ pc = "h_loop" =>
              /\ y \in 0..(Y - 1) /\ cy(y, Y) = y
              /\ \A i \in HIndices : i \in 0..(X - 1) /\ cx(i, X) = i
        /\ pc = "v_loop" =>
              /\ x \in 0..(X - 1) /\ cx(x, X) = x
              /\ \A i \in VIndices : i \in 0..(Y - 1) /\ cy(i, Y) = i

\* C5 happens: the last iteration of a column of 3 or more rows, with a run to flush
C5_Witness ==
    /\ WellFormed(source_image) /\ ~wrap_around
    /\ pc = "v_loop" /\ Y >= 3 /\ y = Y - 1 /\ FlushRangeY(y_start, y) # {}

\* the call of scenario A
InScenarioA ==
    /\ source_image = ScenarioA.source_image
    /\ threshold_x = ScenarioA.threshold_x
    /\ ~wrap_around

\* C6. Scenario A, the row 10 10 10 200 10 with threshold_x 5, repeat edge: the
\* first breach is at index 3, indices 0..2 hold 10 and index 3 holds 200 after
\* it, and filter returns 10 10 10 200 10.
C6_ScenarioA ==
    InScenarioA =>
        /\ (pc = "h_loop" /\ x <= 3) => ~breached
        /\ (pc = "h_loop" /\ x = 4) =>
              /\ breached /\ x_start = 3
              /\ SubSeq(intermediate_image[1], 1, 4) = << <<10>>, <<10>>, <<10>>, <<200>> >>
        /\ Returned => returned = << << <<10>>, <<10>>, <<10>>, <<200>>, <<10>> >> >>

\* C6 happens: the call of scenario A returned
C6_Witness == InScenarioA /\ Returned /\ threshold_y = 5

\* the intermediate image of the horizontal pass of a call in the given mode
HorizontalImage(src, tx, wrap) ==
    LET a == Arguments(src, tx, 0, wrap, FALSE)
    IN  HorizontalPass(a, create_image(a.X, a.Y, a.Z), 0, <<>>).image

\* the first and the last pixel of the row differ by more than the threshold
\* in a color channel
EdgeDiffers(row, tx, Z_) ==
    \E c \in 1..Len(Color(row[1], Z_)) : Abs(row[1][c] - row[Len(row)][c]) > tx

\* the horizontal pass is over
HorizontalDone == pc = "v_col" /\ x = 0

\* C7 as claimed: every row whose first and last pixels differ in a color
\* channel by more than threshold_x comes out of the horizontal pass in wrap
\* around mode different from what it comes out in repeat edge mode.
C7_AlwaysDiverge ==
    (HorizontalDone /\ WellFormed(source_image)) =>
        \A r \in 1..Y :
            EdgeDiffers(source_image[r], threshold_x, Z) =>
                intermediate_image[r] # HorizontalImage(source_image, threshold_x, ~wrap_around)[r]

\* C7, amended: the two modes run the same first W iterations on every row,
\* so that the row after them in wrap around mode is the row repeat edge mode
\* puts out, and they can differ only through the W further iterations of wrap
\* around mode; rows of fewer than 3 pixels come out the same in both modes.
C7_DivergeInSecondLap ==
    WellFormed(source_image) =>
        /\ (wrap_around /\ pc = "h_loop" /\ x = X) =>
              intermediate_image[y + 1] = HorizontalImage(source_image, threshold_x, FALSE)[y + 1]
        /\ HorizontalDone =>
              \A r \in 1..Y :
                  intermediate_image[r] # HorizontalImage(source_image, threshold_x, ~wrap_around)[r]
                      => X >= 3

\* C7 happens: a row whose first and last pixels differ by more than
\* threshold_x comes out of wrap around mode different from repeat edge mode
C7_Witness ==
    /\ HorizontalDone /\ WellFormed(source_image) /\ wrap_around
    /\ \E r \in 1..Y :
          /\ EdgeDiffers(source_image[r], threshold_x, Z)
          /\ intermediate_image[r] # HorizontalImage(source_image, threshold_x, FALSE)[r]

\* an iteration of the horizontal pass has just run: its row, its scan index
HJustRan == (pc = "h_loop" /\ x >= 1) \/ (pc = "h_row" /\ y >= 1)
HRow == IF pc = "h_loop" THEN y ELSE y - 1
HIndex == x - 1

\* an iteration of the vertical pass has just run: its column, its scan index
VJustRan == (pc = "v_loop" /\ y >= 1) \/ (pc = "v_col" /\ x >= 1)
VColumn == IF pc = "v_loop" THEN x ELSE x - 1
VIndex == y - 1

\* the pixel the horizontal pass reads at scan index i of row r, the pixel the
\* vertical pass reads at scan index i of column k
HPixel(r, i) == source_image[cy(r, Y) + 1][cx(i, X) + 1]
VPixel(k, i) == intermediate_image[cy(i, Y) + 1][cx(k, X) + 1]

\* C8, first half: with a threshold of 0, a pixel that differs in a color
\* channel from the pixel before it on its scan line breaches when it is read.
C8_DifferingPixelBreaches ==
    /\ (HJustRan /\ threshold_x = 0 /\ HIndex >= 1
            /\ Color(HPixel(HRow, HIndex), Z) # Color(HPixel(HRow, HIndex - 1), Z))
          => breached
    /\ (VJustRan /\ threshold_y = 0 /\ VIndex >= 1
            /\ Color(VPixel(VColumn, VIndex), Z) # Color(VPixel(VColumn, VIndex - 1), Z))
          => breached

\* C8, second half as claimed: with a threshold of 0 no run between two
\* breaches is longer than 2 pixels.  The run a breach at scan index x ends is
\* the scan indices x_start..x - 1; it began at a breach when x_start > 0.
C8_RunsAtMostTwo ==
    /\ (threshold_x = 0 /\ pc = "h_loop" /\ x_start > 0 /\ pc' # "raised" /\ breached')
          => x - x_start <= 2
    /\ (threshold_y = 0 /\ pc = "v_loop" /\ y_start > 0 /\ breached')
          => y - y_start <= 2

\* C8 as claimed: both halves
C8_ThresholdZero ==
    [][WellFormed(source_image) => (C8_DifferingPixelBreaches' /\ C8_RunsAtMostTwo)]_vars

\* C8, amended: with a threshold of 0, a pixel that differs in a color channel
\* from the pixel before it on its scan line breaches when it is read, and
\* consequently all the pixels of a run have the same color channels (a run of
\* pixels of one color is as long as that color lasts).
C8_ThresholdZeroRuns ==
    WellFormed(source_image) =>
        /\ C8_DifferingPixelBreaches
        /\ (HJustRan /\ threshold_x = 0) =>
              \A i \in x_start..HIndex : Color(HPixel(HRow, i), Z) = Color(pixel, Z)
        /\ (VJustRan /\ threshold_y = 0) =>
              \A i \in y_start..VIndex : Color(VPixel(VColumn, i), Z) = Color(pixel, Z)

\* C8 happens: with threshold 0 a run that began at a breach is 3 pixels long
C8_Witness ==
    /\ WellFormed(source_image) /\ threshold_x = 0
    /\ pc = "h_loop" /\ x_start > 0 /\ x - x_start >= 3

\* the image with the alpha of every pixel replaced: f[r][k] is the new alpha
WithAlpha(src, Z_, f) ==
    [r \in 1..Len(src) |-> [k \in 1..Len(src[r]) |-> Color(src[r][k], Z_) \o <<f[r][k]>>]]

\* images that agree with src on the color channels and differ from it in
\* alpha: one alpha everywhere, every alpha inverted, the alpha of one pixel
\* inverted
AlphaVariants(src, Z_) ==
    LET plane(g(_, _)) == [r \in 1..Len(src) |-> [k \in 1..Len(src[r]) |-> g(r, k)]]
        inverted(r, k) == MaxVal - Alpha(src[r][k], Z_)
        one(v) == LET g(r, k) == v IN plane(g)
        at(r0, k0) == LET g(r, k) == IF r = r0 /\ k = k0 THEN inverted(r, k)
                                     ELSE Alpha(src[r][k], Z_)
                      IN  plane(g)
    IN  ({WithAlpha(src, Z_, one(v)) : v \in {0, MaxVal}}
            \cup {WithAlpha(src, Z_, plane(inverted))}
            \cup {WithAlpha(src, Z_, at(r0, k0)) : r0 \in 1..Len(src), k0 \in 1..Len(src[1])})
        \ {src}

\* the image with the first color channel of every pixel for its alpha
AlphaFromColor(src, Z_) ==
    WithAlpha(src, Z_, [r \in 1..Len(src) |-> [k \in 1..Len(src[r]) |-> src[r][k][1]]])

\* C9. Alpha is excluded from the breach decision: for Z in {2, 4} an image
\* that differs from the source in alpha only gives the same color channels,
\* for any thresholds and flags; and with keep_alpha false alpha is averaged
\* over the runs of the color channels: an alpha that is a copy of the first
\* color channel comes out as a copy of the first color channel returned.
C9_AlphaExcluded ==
    (Returned /\ WellFormed(source_image) /\ Z \in {2, 4}) =>
        /\ \A src \in AlphaVariants(source_image, Z) :
              LET other == filter(src, threshold_x, threshold_y, wrap_around, keep_alpha)
              IN  /\ other.exception = "none"
                  /\ \A r \in 1..Y : \A k \in 1..X :
                        Color(other.value[r][k], Z) = Color(returned[r][k], Z)
        /\ LET copy == filter(AlphaFromColor(source_image, Z), threshold_x, threshold_y,
                              wrap_around, FALSE)
           IN  /\ copy.exception = "none"
               /\ \A r \in 1..Y : \A k \in 1..X :
                     /\ Color(copy.value[r][k], Z) = Color(returned[r][k], Z)
                     /\ Alpha(copy.value[r][k], Z) = returned[r][k][1]

\* C9 happens: an image with alpha returned with colors averaged and, alpha
\* not kept, alpha averaged
C9_Witness ==
    /\ Returned /\ WellFormed(source_image) /\ Z \in {2, 4} /\ ~keep_alpha
    /\ AlphaVariants(source_image, Z) # {}
    /\ \E r \in 1..Y : \E k \in 1..X :
          /\ Color(returned[r][k], Z) # Color(source_image[r][k], Z)
          /\ Alpha(returned[r][k], Z) # Alpha(source_image[r][k], Z)

\* a zero-sized or malformed buffer: no row, no pixel in the first row, ragged
\* rows, or pixels of inconsistent channel counts
Malformed(src) ==
    \/ Len(src) = 0
    \/ Len(src[1]) = 0
    \/ \E r \in 1..Len(src) :
          \/ Len(src[r]) # Len(src[1])
          \/ \E k \in 1..Len(src[r]) : Len(src[r][k]) # Len(src[1][1])

\* C10. A zero-sized or malformed source buffer is detected at entry and
\* rejected with InvalidDimensions: no pass runs, nothing is returned and the
\* buffer is never processed.
C10_Rejected ==
    Malformed(source_image) =>
        /\ pc \in {"entry", "raised"}
        /\ pc = "raised" => exception = "InvalidDimensions"
        /\ intermediate_image = <<>> /\ result_image = <<>> /\ returned = <<>>

\* the case C10 excludes happens: a malformed buffer goes through both passes
\* and an image is returned
C10_Witness ==
    /\ Malformed(source_image) /\ Len(source_image) > 0
    /\ Returned /\ returned # <<>>
    /\ Len(returned) = Y /\ \A r \in 1..Y : Len(returned[r]) = X
    /\ \E r \in 1..Y : Len(source_image[r]) # X

\* a buffer of one shape whose pixels have a channel count outside {1, 2, 3, 4}
Unsupported(src) ==
    /\ Len(src) > 0 /\ Len(src[1]) > 0
    /\ ~Malformed(src)
    /\ Len(src[1][1]) \notin {1, 2, 3, 4}

\* C11. A source whose channel count is outside {1, 2, 3, 4} is rejected with
\* UnsupportedChannelCount: it is not filtered and nothing is returned.
C11_Rejected ==
    Unsupported(source_image) =>
        /\ pc \in {"entry", "raised"}
        /\ pc = "raised" => exception = "UnsupportedChannelCount"
        /\ intermediate_image = <<>> /\ result_image = <<>> /\ returned = <<>>

\* the case C11 excludes happens: a 5-channel image is filtered, its pixels
\* averaged, and returned
C11_Witness ==
    /\ Unsupported(source_image) /\ Z = 5
    /\ Returned /\ Len(returned) = Y /\ \A r \in 1..Y : Len(returned[r]) = X
    /\ \E r \in 1..Y : \E k \in 1..X :
          /\ Len(returned[r][k]) = Z
          /\ returned[r][k] # source_image[r][k]

\* C12. The source buffer is read-only to filter: no step of filter changes a
\* channel value of a pixel of source_image, in either mode, accumulators
\* seeded from source pixels included.
C12_SourceReadOnly == [][source_image' = source_image]_vars

\* C12 happens: filter returned after runs seeded from source pixels, some of
\* them in the vertical pass, and returns an image that differs from the source
C12_Witness ==
    /\ Returned /\ WellFormed(source_image)
    /\ shared # {} /\ returned # source_image
    /\ \E k \in 1..X : <<1, k>> \in shared

\* an iteration of the horizontal (vertical) pass runs in this step and breaches
HBreachStep == pc = "h_loop" /\ pc' \in {"h_loop", "h_row"} /\ breached'
VBreachStep == pc = "v_loop" /\ pc' \in {"v_loop", "v_col"} /\ breached'

\* C13. Flush range: at a breach at scan index x of a run that started at
\* start, the average of the run is written to every resolved position from
\* start to x - 1, in both passes (the position of the breaching pixel, which
\* the pixel is written to afterwards, left aside).
C13_FlushToBeforeBreach ==
    [][WellFormed(source_image) =>
        /\ HBreachStep =>
              \A i \in x_start..(x - 1) :
                  cx(i, X) # cx(x, X) =>
                      intermediate_image'[y + 1][cx(i, X) + 1] = average_pixel'
        /\ VBreachStep =>
              \A i \in y_start..(y - 1) :
                  cy(i, Y) # cy(y, Y) =>
                      result_image'[cy(i, Y) + 1][x + 1] = average_pixel']_vars

\* the case C13 excludes happens: after a breach at scan index x >= 2 of a row
\* the position x - 2 holds the average, which is not the pixel read there, and
\* the position x - 1, the last of the run, holds another value
C13_Witness ==
    /\ WellFormed(source_image) /\ ~wrap_around
    /\ HJustRan /\ breached /\ HIndex >= 2
    /\ intermediate_image[HRow + 1][HIndex - 1] = average_pixel
    /\ HPixel(HRow, HIndex - 2) # average_pixel
    /\ intermediate_image[HRow + 1][HIndex] # average_pixel
    /\ intermediate_image[HRow + 1][HIndex] = HPixel(HRow, HIndex - 1)

\* the channel-wise sum of a sequence of Z_-channel pixels
RECURSIVE PixelSum(_, _)
PixelSum(pixels, Z_) ==
    IF pixels = <<>> THEN [c \in 1..Z_ |-> 0]
    ELSE [c \in 1..Z_ |-> Head(pixels)[c] + PixelSum(Tail(pixels), Z_)[c]]

\* the pass-input pixels of the run of row r (column k) at scan indices
\* from..to
HRun(r, from, to) == [j \in 1..(to - from + 1) |-> HPixel(r, from + j - 1)]
VRun(k, from, to) == [j \in 1..(to - from + 1) |-> VPixel(k, from + j - 1)]

\* the truncated arithmetic mean of a sequence of pixels, each counted once
Mean(pixels, Z_) == [c \in 1..Z_ |-> PixelSum(pixels, Z_)[c] \div Len(pixels)]

\* the truncated mean of a run that started at scan index start, with its
\* first pixel counted twice, and three times in the first run of a line
SeedWeightedMean(pixels, Z_, start) ==
    LET seeds == IF start = 0 THEN <<pixels[1], pixels[1]>> ELSE <<pixels[1]>>
    IN  Mean(seeds \o pixels, Z_)

\* C14 as claimed: the value written by a flush is, per channel, the truncated
\* arithmetic mean of the pass-input pixels of the run, each counted once.
C14_MeanOfRun ==
    [][WellFormed(source_image) =>
        /\ HBreachStep => average_pixel' = Mean(HRun(y, x_start, x - 1), Z)
        /\ VBreachStep => average_pixel' = Mean(VRun(x, y_start, y - 1), Z)]_vars

\* C14, amended: the value written by a flush is, per channel, the truncated
\* mean of the pass-input pixels of the run with the first pixel of the run
\* counted twice (three times in the first run of a scan line) and every
\* other pixel once (a run has a pixel or more before the breaching one); the
\* positions flushed hold that value.
C14_SeedWeightedMeanOfRun ==
    [][WellFormed(source_image) =>
        /\ HBreachStep =>
              /\ x_start <= x - 1
              /\ average_pixel' = SeedWeightedMean(HRun(y, x_start, x - 1), Z, x_start)
              /\ \A i \in x_start..(x - 2) :
                    cx(i, X) # cx(x, X) =>
                        intermediate_image'[y + 1][cx(i, X) + 1] = average_pixel'
        /\ VBreachStep =>
              /\ y_start <= y - 1
              /\ average_pixel' = SeedWeightedMean(VRun(x, y_start, y - 1), Z, y_start)
              /\ \A i \in y_start..(y - 2) :
                    cy(i, Y) # cy(y, Y) =>
                        result_image'[cy(i, Y) + 1][x + 1] = average_pixel']_vars

\* C14 happens: the breach at scan index 2 of a row of an LA image flushes the
\* run of the pixels 0 and 1 with an alpha that is not the mean of their alphas
C14_Witness ==
    /\ WellFormed(source_image) /\ ~wrap_around /\ Z = 2
    /\ HJustRan /\ breached /\ HIndex = 2
    /\ intermediate_image[HRow + 1][1] = average_pixel
    /\ HPixel(HRow, 0) # average_pixel
    /\ average_pixel # Mean(HRun(HRow, 0, 1), Z)

\* C15 as claimed: the breaching pixel is preserved.  Once a pixel has
\* breached (it is the start of the run, x_start > 0), no later flush of the
\* scan line overwrites its position: the position keeps the exact input value.
C15_BreachingPixelKept ==
    [][WellFormed(source_image) =>
        /\ (HBreachStep /\ x_start > 0) =>
              intermediate_image'[y + 1][cx(x_start, X) + 1] = HPixel(y, x_start)
        /\ (VBreachStep /\ y_start > 0) =>
              result_image'[cy(y_start, Y) + 1][x + 1] = VPixel(x, y_start)]_vars

\* C15, amended: in the iteration where it breaches, the breaching pixel is
\* written with its exact input value and the flush changes only positions
\* strictly before it (the scan indices start..x - 2); the next breach of the
\* scan line, when it comes 2 or more indices later, overwrites the position
\* of the breaching pixel with the average of the run that pixel started.
C15_BreachingPixelKeptUntilNextFlush ==
    [][WellFormed(source_image) =>
        /\ HBreachStep =>
              /\ intermediate_image'[y + 1][cx(x, X) + 1] = HPixel(y, x)
              /\ \A r \in 1..Y : \A k \in 1..X :
                    (r # y + 1 \/ \A i \in (x_start..(x - 2)) \cup {x} : cx(i, X) + 1 # k)
                        => intermediate_image'[r][k] = intermediate_image[r][k]
              /\ (x_start > 0 /\ x >= x_start + 2 /\ cx(x_start, X) # cx(x, X))
                    => intermediate_image'[y + 1][cx(x_start, X) + 1] = average_pixel'
        /\ VBreachStep =>
              /\ result_image'[cy(y, Y) + 1][x + 1] = VPixel(x, y)
              /\ \A r \in 1..Y : \A k \in 1..X :
                    (k # x + 1 \/ \A i \in (y_start..(y - 2)) \cup {y} : cy(i, Y) + 1 # r)
                        => result_image'[r][k] = result_image[r][k]
              /\ (y_start > 0 /\ y >= y_start + 2 /\ cy(y_start, Y) # cy(y, Y))
                    => result_image'[cy(y_start, Y) + 1][x + 1] = average_pixel']_vars

\* C15 happens: the pixel at scan index 1 of a row breached (it differs from
\* the pixel at 0 by more than the threshold), and the breach at scan index 3
\* has put the average of the run 1..2 in its place
C15_Witness ==
    /\ WellFormed(source_image) /\ ~wrap_around
    /\ HJustRan /\ breached /\ HIndex = 3
    /\ Abs(HPixel(HRow, 1)[1] - HPixel(HRow, 0)[1]) > threshold_x
    /\ intermediate_image[HRow + 1][2] = average_pixel
    /\ intermediate_image[HRow + 1][2] # HPixel(HRow, 1)
    /\ intermediate_image[HRow + 1][4] = HPixel(HRow, 3)

\* the scan of a row (column) has just ended: its row (column), the scan
\* index after its last
HRowEnded == pc = "h_row" /\ y >= 1
VColumnEnded == pc = "v_col" /\ x >= 1
HScanEnd == X + x_overhead
VScanEnd == Y + y_overhead

\* C16. No flush at line end: when the scan of a row or column has ended,
\* every position from the last breach (the start of the run left open; the
\* start of the line if there was no breach) onward holds the literal
\* pass-input pixel, in both modes; a line without a breach comes out as it
\* went in.
C16_NoFlushAtLineEnd ==
    WellFormed(source_image) =>
        /\ HRowEnded =>
              /\ \A i \in x_start..(HScanEnd - 1) :
                    intermediate_image[y][cx(i, X) + 1] = HPixel(y - 1, i)
              /\ x_start = 0 => intermediate_image[y] = source_image[y]
        /\ VColumnEnded =>
              /\ \A i \in y_start..(VScanEnd - 1) :
                    result_image[cy(i, Y) + 1][x] = VPixel(x - 1, i)
              /\ y_start = 0 =>
                    \A r \in 1..Y : result_image[r][x] = intermediate_image[r][x]

\* C16 happens: a row has ended with an open run of 2 or more pixels that
\* began at a breach and whose average is not its first pixel
C16_Witness ==
    /\ WellFormed(source_image) /\ HRowEnded
    /\ x_start > 0 /\ x_start <= HScanEnd - 2
    /\ Mean(HRun(y - 1, x_start, HScanEnd - 1), Z) # HPixel(y - 1, x_start)
    /\ HPixel(y - 1, x_start + 1) # HPixel(y - 1, x_start)

\* C17 as claimed: the horizontal pass flushes the pending run when the end
\* of the row is reached too: the positions of the run left open then hold
\* one value, the average.
C17_FlushOnRowEnd ==
    (WellFormed(source_image) /\ HRowEnded) =>
        \A i, j \in x_start..(HScanEnd - 1) :
            intermediate_image[y][cx(i, X) + 1] = intermediate_image[y][cx(j, X) + 1]

\* an iteration of the horizontal pass runs in this step and does not breach
HQuietStep == pc = "h_loop" /\ pc' \in {"h_loop", "h_row"} /\ ~breached'

\* C17, amended: the horizontal pass flushes on a threshold breach only.  An
\* iteration that does not breach, the last of the row included, writes the
\* pixel it read to its position and changes nothing else: reaching the end of
\* the row flushes nothing.
C17_FlushOnBreachOnly ==
    [][WellFormed(source_image) =>
        (HQuietStep =>
            /\ intermediate_image'[y + 1][cx(x, X) + 1] = HPixel(y, x)
            /\ \A r \in 1..Y : \A k \in 1..X :
                  (r # y + 1 \/ k # cx(x, X) + 1)
                      => intermediate_image'[r][k] = intermediate_image[r][k])]_vars

\* C17 happens: a row of different pixels has ended without any breach
C17_Witness ==
    /\ WellFormed(source_image) /\ HRowEnded /\ ~breached /\ x_start = 0
    /\ \E k \in 1..X : intermediate_image[y][k] # intermediate_image[y][1]
    /\ intermediate_image[y] = source_image[y]

\* the next iteration of the horizontal (vertical) pass is the one of scan
\* index x (y): the sum and the count its pixel is tested against, which are
\* the sum and the count before it with the pixel read last added
HPending == pc = "h_loop"
VPending == pc = "v_loop"
TestSum == [c \in 1..Z |-> pixel[c] + pixels_sum[c]]
TestCount == number + 1

\* the sum of a run of pixels with the first counted w times, the others once
WeightedSum(pixels, Z_, w) == PixelSum([j \in 1..(w - 1) |-> pixels[1]] \o pixels, Z_)

\* the sum and the count tested against are those of the pixels at the scan
\* indices start..index - 1, the first of them counted 1 to 3 times
FromEarlierPixels(pixels) ==
    /\ pixels # <<>>
    /\ \E w \in 1..3 : /\ TestCount = w + Len(pixels) - 1
                       /\ TestSum = WeightedSum(pixels, Z, w)

\* C18 as claimed: in every iteration the average the pixel at scan index x is
\* tested against is computed only from pixels at scan indices before x.
C18_AverageFromEarlierPixels ==
    WellFormed(source_image) =>
        /\ HPending => FromEarlierPixels(HRun(y, x_start, x - 1))
        /\ VPending => FromEarlierPixels(VRun(x, y_start, y - 1))

\* C18, amended: in every iteration after the first of a scan line the
\* average the pixel at scan index x is tested against is computed only from
\* the pixels of the run at scan indices before x; in the first iteration,
\* where no scan index comes before, it is computed from the seed read before
\* the loop, which is the pixel of scan index 0, the pixel tested, itself.
C18_AverageFromEarlierPixelsOrSeed ==
    WellFormed(source_image) =>
        /\ (HPending /\ x >= 1) => FromEarlierPixels(HRun(y, x_start, x - 1))
        /\ (HPending /\ x = 0) =>
              TestCount = 2 /\ TestSum = PixelSum(<<HPixel(y, 0), HPixel(y, 0)>>, Z)
        /\ (VPending /\ y >= 1) => FromEarlierPixels(VRun(x, y_start, y - 1))
        /\ (VPending /\ y = 0) =>
              TestCount = 2 /\ TestSum = PixelSum(<<VPixel(x, 0), VPixel(x, 0)>>, Z)

\* C18 happens: the pixel at a scan index 3 or more is about to be tested
\* against a run of 2 or more pixels that started at a breach, and differs from
\* the one before it
C18_Witness ==
    /\ WellFormed(source_image) /\ HPending
    /\ x_start >= 1 /\ x - x_start >= 2
    /\ HPixel(y, x) # HPixel(y, x - 1)
    /\ HPixel(y, x - 1) # HPixel(y, x_start)

\* an iteration of the horizontal (vertical) pass runs in this step
HStep == pc = "h_loop" /\ pc' \in {"h_loop", "h_row"}
VStep == pc = "v_loop" /\ pc' \in {"v_loop", "v_col"}

\* the number of color channels of a Z_-channel image
ColorCount(Z_) == IF Z_ \in {2, 4} THEN Z_ - 1 ELSE Z_

\* channel c of pixel p deviates from the exact average sum[c] / count by more
\* than the threshold: |p[c] - sum[c] / count| > threshold, over the integers
Deviates(p, c, sum, count, threshold) ==
    \/ p[c] * count - sum[c] > threshold * count
    \/ sum[c] - p[c] * count > threshold * count

\* C19. Breach rule: an iteration breaches if and only if a color channel of
\* the pixel it reads deviates from the exact running average by more than
\* the threshold of the pass; a deviation equal to the threshold is no breach
\* and channels past the color channels do not count.
C19_BreachRule ==
    [][WellFormed(source_image) =>
        /\ HStep => (breached' <=>
                        \E c \in 1..ColorCount(Z) :
                            Deviates(pixel', c, TestSum, TestCount, threshold_x))
        /\ VStep => (breached' <=>
                        \E c \in 1..ColorCount(Z) :
                            Deviates(pixel', c, TestSum, TestCount, threshold_y))]_vars

\* C19 happens: a pixel of an LA image has not breached in the vertical pass
\* with its color exactly the threshold away from the average and its alpha
\* further away
C19_Witness ==
    /\ WellFormed(source_image) /\ Z = 2 /\ threshold_y > 0
    /\ VJustRan /\ ~breached
    /\ Abs(pixel[1] * number - pixels_sum[1]) = threshold_y * number
    /\ Abs(pixel[2] * number - pixels_sum[2]) > threshold_y * number

\* floor(sum[c] / count) for every channel, alpha included
FloorAverage(sum, count, Z_) ==
    [c \in 1..Z_ |-> CHOOSE q \in 0..sum[c] : q * count <= sum[c] /\ sum[c] < (q + 1) * count]

\* C20. Truncating average: every value a flush writes is, per channel, alpha
\* included, the floor of sum[c] / count of the accumulators at the breach,
\* a non-negative integer.
C20_TruncatingAverage ==
    [][WellFormed(source_image) =>
        /\ HBreachStep =>
              /\ average_pixel' = FloorAverage(TestSum, TestCount, Z)
              /\ \A k \in 1..X :
                    (k # cx(x, X) + 1
                        /\ intermediate_image'[y + 1][k] # intermediate_image[y + 1][k])
                            => intermediate_image'[y + 1][k] = average_pixel'
        /\ VBreachStep =>
              /\ average_pixel' = FloorAverage(TestSum, TestCount, Z)
              /\ \A r \in 1..Y :
                    (r # cy(y, Y) + 1 /\ result_image'[r][x + 1] # result_image[r][x + 1])
                        => result_image'[r][x + 1] = average_pixel'
        /\ (HBreachStep \/ VBreachStep) => \A c \in 1..Z : average_pixel'[c] \in Nat]_vars

\* C20 happens: the breach at scan index 2 of a row of an image with alpha has
\* flushed the run of the pixels 0 and 1 (sum 3 * p[0] + p[1], count 4) with a
\* channel whose exact average is half or more above its floor
C20_Witness ==
    /\ WellFormed(source_image) /\ ~wrap_around /\ Z \in {2, 4}
    /\ HJustRan /\ breached /\ HIndex = 2
    /\ intermediate_image[HRow + 1][1] = average_pixel
    /\ HPixel(HRow, 0) # average_pixel
    /\ \E c \in 1..Z :
          /\ 2 * ((3 * HPixel(HRow, 0)[c] + HPixel(HRow, 1)[c]) % 4) >= 4
          /\ average_pixel[c] = (3 * HPixel(HRow, 0)[c] + HPixel(HRow, 1)[c]) \div 4

\* the rows of intermediate_image the horizontal pass is through with, the
\* columns of result_image the vertical pass is through with (from 1)
HRowsDone == IF pc \in {"h_row", "h_loop"} THEN 1..y
             ELSE IF pc \in {"v_col", "v_loop", "done"} THEN 1..Y ELSE {}
VColumnsDone == IF pc \in {"v_col", "v_loop"} THEN 1..x
                ELSE IF pc = "done" THEN 1..X ELSE {}

\* the channels that are positive in every pixel of the source: the
\* placeholder pixels of create_image are 0 there
PositiveChannels ==
    {c \in 1..Z : \A r \in 1..Y : \A k \in 1..X : source_image[r][k][c] > 0}

\* C21. Every position is written: every iteration, breach or not, writes
\* the pixel it read to the resolved scan position, and in the rows the
\* horizontal pass is through with, in the columns the vertical pass is
\* through with and in the image returned no placeholder of create_image
\* remains (a channel positive all over the source is positive there), in
\* both modes.
C21_EveryPositionWritten ==
    WellFormed(source_image) =>
        /\ HJustRan => /\ pixel = HPixel(HRow, HIndex)
                       /\ intermediate_image[HRow + 1][cx(HIndex, X) + 1] = pixel
        /\ VJustRan => /\ pixel = VPixel(VColumn, VIndex)
                       /\ result_image[cy(VIndex, Y) + 1][VColumn + 1] = pixel
        /\ \A c \in PositiveChannels :
              /\ \A r \in HRowsDone : \A k \in 1..X : intermediate_image[r][k][c] > 0
              /\ \A k \in VColumnsDone : \A r \in 1..Y : result_image[r][k][c] > 0
              /\ Returned => \A r \in 1..Y : \A k \in 1..X : returned[r][k][c] > 0

\* C21 happens: filter has returned, in wrap around mode, an image of 2 or more
\* pixels with a channel that is positive all over the source, after breaches
\* and iterations without one
C21_Witness ==
    /\ WellFormed(source_image) /\ Returned /\ wrap_around
    /\ PositiveChannels # {} /\ X * Y >= 2
    /\ returned # source_image


\* the result image of the vertical pass run on an image in the given mode
VerticalImage(im, ty, wrap) ==
    LET a == Arguments(im, 0, ty, wrap, FALSE)
    IN  VerticalPass(a, im, create_image(a.X, a.Y, a.Z), 0, <<>>).image

\* the image with its rows and columns exchanged
Transpose(im) == [k \in 1..Len(im[1]) |-> [r \in 1..Len(im) |-> im[r][k]]]

\* the vertical pass on an image is the transposed horizontal pass on the
\* transposed image, for the source and the intermediate image of the call
\* and its vertical threshold
VerticalIsHorizontalTransposed ==
    \A im \in {source_image, intermediate_image} :
        VerticalImage(im, threshold_y, wrap_around)
            = Transpose(HorizontalImage(Transpose(im), threshold_y, wrap_around))

\* the vertical pass with threshold_y run on the output of the horizontal pass
\* with threshold_x
VerticalOfHorizontal ==
    VerticalImage(HorizontalImage(source_image, threshold_x, wrap_around),
                  threshold_y, wrap_around)

\* C22 as claimed: the vertical pass is the horizontal pass transposed, and
\* the image filter returns is the vertical pass applied to the output of the
\* horizontal pass
C22_VerticalAfterHorizontal ==
    (WellFormed(source_image) /\ Returned) =>
        /\ VerticalIsHorizontalTransposed
        /\ returned = VerticalOfHorizontal

\* C22: at the step that returns, the vertical pass is the horizontal pass
\* transposed, and the result image the passes have left is the vertical pass
\* with threshold_y applied to the output of the horizontal pass with
\* threshold_x in the same edge mode; the returned image has the color channels
\* of that result, and its alpha too unless keep_alpha restores the source
\* alpha of an LA or RGBA image
C22_VerticalAfterHorizontalThenAlpha ==
    [][(WellFormed(source_image) /\ Returned') =>
          /\ VerticalIsHorizontalTransposed
          /\ result_image = VerticalOfHorizontal
          /\ \A r \in 1..Y : \A k \in 1..X :
                /\ Color(returned'[r][k], Z) = Color(result_image[r][k], Z)
                /\ Alpha(returned'[r][k], Z)
                      = IF keep_alpha /\ Z \in {2, 4} THEN Alpha(source_image[r][k], Z)
                        ELSE Alpha(result_image[r][k], Z)]_vars

\* C22 happens: a call on an image of several rows and columns returned and
\* both passes averaged
C22_Witness ==
    /\ WellFormed(source_image) /\ Returned /\ X >= 3 /\ Y >= 3
    /\ intermediate_image # source_image
    /\ result_image # intermediate_image
    /\ keep_alpha /\ returned # result_image


\* the workers that have not run an iteration, and those that have run them all
Unstarted == {w \in DOMAIN workers : workers[w].at = 0}
Ended(length) == {w \in DOMAIN workers : workers[w].at >= length}

\* a row and a column of an image as images of their own
RowAlone(im, r) == <<im[r]>>
ColumnAlone(im, k) == [r \in 1..Len(im) |-> <<im[r][k]>>]

\* C23. Line independence: with a worker per row, then after a barrier a
\* worker per column, interleaved in any order, a row no worker has started
\* on still holds the zero placeholders and a row whose worker has ended is
\* the horizontal pass of that source row alone; likewise the columns of the
\* result and the intermediate image; after the barrier the intermediate
\* image, and at the end the result and the returned image, are those of the
\* sequential code.
C23_LineIndependence ==
    /\ pc = "rows" =>
          /\ \A r \in Unstarted :
                intermediate_image[r + 1] = create_image(X, Y, Z)[r + 1]
          /\ \A r \in Ended(X + x_overhead) :
                intermediate_image[r + 1]
                    = HorizontalImage(RowAlone(source_image, r + 1),
                                      threshold_x, wrap_around)[1]
    /\ pc \in {"columns", "done"} =>
          intermediate_image = HorizontalImage(source_image, threshold_x, wrap_around)
    /\ pc = "columns" =>
          /\ \A k \in Unstarted :
                ColumnAlone(result_image, k + 1) = ColumnAlone(create_image(X, Y, Z), k + 1)
          /\ \A k \in Ended(Y + y_overhead) :
                ColumnAlone(result_image, k + 1)
                    = VerticalImage(ColumnAlone(intermediate_image, k + 1),
                                    threshold_y, wrap_around)
    /\ pc = "done" =>
          /\ result_image = VerticalOfHorizontal
          /\ returned = filter(source_image, threshold_x, threshold_y, wrap_around,
                               keep_alpha).value

\* C23 happens: the rows differ and were averaged, two column workers are both
\* in the middle of their columns, and a third has ended and averaged
C23_Witness ==
    /\ pc = "columns"
    /\ source_image[1] # source_image[2]
    /\ intermediate_image # source_image
    /\ \E k1, k2 \in DOMAIN workers \ (Unstarted \cup Ended(Y + y_overhead)) : k1 # k2
    /\ \E k \in Ended(Y + y_overhead) :
          ColumnAlone(result_image, k + 1) # ColumnAlone(intermediate_image, k + 1)


\* the width and the height of the source, and the number of iterations the
\* claim gives the scan of a line of n pixels
Width == Len(source_image[1])
Height == Len(source_image)
ScanLength(n) == IF wrap_around THEN 2 * n ELSE n

\* the steps filter has left when every row takes ScanLength(Width) iterations
\* and every column ScanLength(Height): a start and the iterations per line,
\* the start of the vertical pass and the return
StepsLeft ==
    LET row == 1 + ScanLength(Width)
        column == 1 + ScanLength(Height)
        vertical == Width * column + 1
    IN  CASE pc = "entry" -> 2 + Height * row + vertical
          [] pc = "h_row" -> 1 + (Height - y) * row + vertical
          [] pc = "h_loop" -> 1 + (Height - y) * row - 1 - x + vertical
          [] pc = "v_col" -> (Width - x) * column + 1
          [] pc = "v_loop" -> (Width - x) * column - 1 - y + 1
          [] pc = "done" -> 0
          [] OTHER -> 0 - 1

\* C24. Termination: on a valid input every step of filter leaves fewer steps
\* to take, none raises, an inner loop is entered or stayed in only with an
\* iteration left to run, and no step is left exactly when filter has returned;
\* every iteration moves the scan index on by one, and the scan of a row ends
\* after exactly W iterations in clamp mode and 2 * W in wrap mode, that of a
\* column after H, respectively 2 * H.
C24_Termination ==
    [][WellFormed(source_image) =>
          /\ StepsLeft' < StepsLeft /\ StepsLeft' >= 0
          /\ pc' # "raised"
          /\ pc' = "h_loop" => x' < X' + x_overhead'
          /\ pc' = "v_loop" => y' < Y' + y_overhead'
          /\ StepsLeft' = 0 <=> pc' = "done"
          /\ pc = "h_loop" => x' = x + 1
          /\ pc = "v_loop" => y' = y + 1
          /\ HRowEnded' => x' = ScanLength(Width)
          /\ VColumnEnded' => y' = ScanLength(Height)]_vars

\* C24 happens: a call in wrap mode on an image that is not uniform returned
\* without any averaging
C24_Witness ==
    /\ WellFormed(source_image) /\ Returned /\ wrap_around
    /\ ~Uniform(source_image)
    /\ Width * Height >= 3
    /\ intermediate_image = source_image /\ result_image = source_image


\* the count and the sum the claim gives the test of scan index `index' in a
\* run seeded at scan index s: index - s + 1 and 2 * p[s] + p[s + 1] + ... +
\* p[index - 1], where `pixels' are p[s] .. p[index - 1]
SeededAccumulator(pixels, s, index) ==
    /\ TestCount = index - s + 1
    /\ TestSum = PixelSum(<<pixels[1]>> \o pixels, Z)

\* the count and the sum the claim gives the test of scan index `index' in the
\* first run of a line: index + 2 and 3 * p[0] + p[1] + ... + p[index - 1],
\* where `later' are p[1] .. p[index - 1]
FirstRunAccumulator(first, later, index) ==
    /\ TestCount = index + 2
    /\ TestSum = PixelSum(<<first, first, first>> \o later, Z)

\* the same with the seed read before the loop counted twice and the pixels
\* p[0] .. p[index - 1] the iterations have read once each
FirstRunAccumulatorFromSeed(first, read, index) ==
    /\ TestCount = index + 2
    /\ TestCount = 2 + Len(read)
    /\ TestSum = PixelSum(<<first, first>> \o read, Z)

ChannelValues(im, c) == {im[r][k][c] : r \in 1..Len(im), k \in 1..Len(im[1])}

\* every value of every channel of the image lies between the least and the
\* greatest value of that channel in the source, and is not negative
WithinSource(im) ==
    \A c \in 1..Len(source_image[1][1]) :
        LET values == ChannelValues(source_image, c)
        IN  \A v \in ChannelValues(im, c) :
                /\ \E least \in values : least <= v
                /\ \E greatest \in values : v <= greatest
                /\ 0 <= v

\* C26. Value bounds: every channel value of the intermediate image the
\* horizontal pass leaves, of the result image the vertical pass leaves and of
\* the returned image lies between the minimum and the maximum of that
\* channel in the source, in both modes and for either keep_alpha.
C26_ValueBounds ==
    WellFormed(source_image) =>
        /\ HorizontalDone => WithinSource(intermediate_image)
        /\ Returned => /\ WithinSource(intermediate_image)
                       /\ WithinSource(result_image)
                       /\ WithinSource(returned)

\* C26 happens: both passes averaged an image of 4 channels, and its alpha
\* was averaged too
C26_Witness ==
    /\ WellFormed(source_image) /\ Returned /\ Z = 4 /\ ~keep_alpha
    /\ intermediate_image # source_image
    /\ result_image # intermediate_image
    /\ \E r \in 1..Y : \E k \in 1..X :
          Alpha(returned[r][k], Z) # Alpha(source_image[r][k], Z)


\* the last two positions of a line of n pixels, from 1
LastTwo(n) == {n - 1, n}

\* C27. In clamp mode the last two positions of every scan line are never
\* averaged: for W >= 2 the intermediate pixels of the last two columns of
\* every row the horizontal pass is done with equal the source pixels, for
\* H >= 2 the result pixels of the last two rows of every column the vertical
\* pass is done with equal the intermediate pixels, and for W >= 2 and H >= 2
\* the bottom right 2 x 2 block of the returned image equals the source.
C27_LastTwoKept ==
    (WellFormed(source_image) /\ ~wrap_around) =>
        /\ (Width >= 2 /\ pc \in {"h_row", "done"}) =>
              \A r \in HRowsDone : \A k \in LastTwo(Width) :
                  intermediate_image[r][k] = source_image[r][k]
        /\ (Height >= 2 /\ pc \in {"v_col", "done"}) =>
              \A k \in VColumnsDone : \A r \in LastTwo(Height) :
                  result_image[r][k] = intermediate_image[r][k]
        /\ (Returned /\ Width >= 2 /\ Height >= 2) =>
              \A r \in LastTwo(Height) : \A k \in LastTwo(Width) :
                  returned[r][k] = source_image[r][k]

\* C27 happens: a call in clamp mode on an image of 3 rows and 3 columns
\* returned, both passes averaged, and the pixels of the bottom right block
\* are not all the same
C27_Witness ==
    /\ WellFormed(source_image) /\ Returned /\ ~wrap_around
    /\ Width >= 3 /\ Height >= 3
    /\ intermediate_image # source_image
    /\ result_image # intermediate_image
    /\ source_image[Height - 1][Width - 1] # source_image[Height][Width]


\* the color channels of every pixel of the two images are the same
SameColors(im1, im2) ==
    \A r \in 1..Len(im2) : \A k \in 1..Len(im2[r]) :
        Color(im1[r][k], Len(im2[r][k])) = Color(im2[r][k], Len(im2[r][k]))

\* what filter returns for the image with both thresholds 0 and the mode and
\* the flag of the call
ZeroThresholds(im) == filter(im, 0, 0, wrap_around, keep_alpha).value

\* C28. With threshold_x = threshold_y = 0 the color channels of the image
\* each pass leaves and of the returned image equal those of the source, in
\* both modes; for Z in {1, 3} the returned image is the source, and for Z in
\* {2, 4} no more than the alpha can differ, and none does with keep_alpha:
\* so it is for the source and for the images that differ from it in alpha.
C28_ZeroThresholdsKeepColors ==
    [][(WellFormed(source_image) /\ threshold_x = 0 /\ threshold_y = 0) =>
          /\ HorizontalDone' => SameColors(intermediate_image', source_image)
          /\ Returned' =>
                /\ SameColors(intermediate_image', source_image)
                /\ SameColors(result_image', source_image)
                /\ SameColors(returned', source_image)
                /\ Len(source_image[1][1]) \in {1, 3} => returned' = source_image
                /\ keep_alpha => returned' = source_image
                /\ Len(source_image[1][1]) \in {2, 4} =>
                      \A v \in AlphaVariants(source_image, Z') :
                          LET out == ZeroThresholds(v)
                          IN  IF keep_alpha THEN out = v ELSE SameColors(out, v)]_vars

\* C28 happens: with both thresholds 0 a call on an image with an alpha channel
\* and pixels of two or more colors returned, and the alpha of an image that
\* differs from it in alpha is averaged
C28_Witness ==
    /\ WellFormed(source_image) /\ Returned
    /\ threshold_x = 0 /\ threshold_y = 0
    /\ Z \in {2, 4} /\ ~keep_alpha
    /\ \E r \in 1..Y : \E k \in 1..X :
          Color(source_image[r][k], Z) # Color(source_image[1][1], Z)
    /\ \E v \in AlphaVariants(source_image, Z) : ZeroThresholds(v) # v


\* the event handled last, the events before it, the event this step handles
LastEvent == events[Len(events)]
EarlierEvents == SubSeq(events, 1, Len(events) - 1)
Handles(event) == events' = Append(events, event)

\* a RunFilter has completed since the last image load or save of the log
RECURSIVE FilteredSince(_)
FilteredSince(log) ==
    IF log = <<>> THEN FALSE
    ELSE LET last == log[Len(log)]
         IN  IF last = "RunFilter" THEN TRUE
             ELSE IF last \in {"GetSource", "Save", "SaveAs"} THEN FALSE
             ELSE FilteredSince(SubSeq(log, 1, Len(log) - 1))

\* the number of times a file was written
Writes == LET RECURSIVE Sum(_)
              Sum(names) == IF names = {} THEN 0
                            ELSE LET n == CHOOSE n \in names : TRUE
                                 IN  Len(files[n]) + Sum(names \ {n})
          IN  Sum(DOMAIN files) - Cardinality(OpenNames)

\* C29 as claimed. Save guard: Save writes the result file if and only if a
\* RunFilter has completed since the last image load or save, so that a
\* repeated Save and a Save of an unfiltered source write nothing; what it
\* writes is image3D, to the source file; after a Save or a SaveAs is_saved is
\* true and is_filtered is false.
C29_SaveGuard ==
    [][/\ Handles("Save") =>
             /\ files' # files <=> FilteredSince(events)
             /\ files' # files =>
                   files' = [files EXCEPT ![sourcefilename] =
                                 Append(@, [image |-> image3D, maxcolors |-> maxcolors])]
             /\ is_saved' /\ ~is_filtered'
       /\ Handles("SaveAs") => is_saved' /\ ~is_filtered' /\ files' # files]_vars

\* C29 happens: an image was loaded and filtered, no file has been written
\* since Averager started, and the event handled last is the first Save
C29_Witness ==
    /\ pc = "host" /\ events # <<>>
    /\ LastEvent = "Save"
    /\ FilteredSince(EarlierEvents)
    /\ \A i \in 1..Len(EarlierEvents) : events[i] \notin {"Save", "SaveAs"}
    /\ Writes = 0
    /\ is_saved /\ ~is_filtered

\* C30. No accumulation of filtering: RunFilter leaves source_image3D as it is
\* and makes image3D the image filter returns for source_image3D with the
\* parameters set, rescaled, whatever image3D was; source_image3D changes only
\* when GetSource loads a file, to the image of the file, and when Save or
\* SaveAs hands the result to onSave, to image3D.
C30_NoAccumulation ==
    [][/\ Handles("RunFilter") =>
             /\ source_image3D' = source_image3D
             /\ image3D' = filter(source_image3D,
                                  (maxcolors * ini_threshold_x) \div 255,
                                  (maxcolors * ini_threshold_y) \div 255,
                                  ini_wraparound, ini_keep_alpha).value
       /\ source_image3D' # source_image3D =>
             \/ /\ Handles("GetSource")
                /\ source_image3D' = files[sourcefilename'][Len(files[sourcefilename'])].image
                /\ image3D' = source_image3D'
             \/ /\ Handles("Save") \/ Handles("SaveAs")
                /\ source_image3D' = image3D /\ image3D' = image3D]_vars

\* C30 happens: two RunFilter events in a row, the result is not the source,
\* and filtering the result once more would give another image
C30_Witness ==
    /\ pc = "host" /\ Len(events) >= 3
    /\ LastEvent = "RunFilter" /\ events[Len(events) - 1] = "RunFilter"
    /\ image3D # source_image3D
    /\ filter(image3D, (maxcolors * ini_threshold_x) \div 255,
              (maxcolors * ini_threshold_y) \div 255,
              ini_wraparound, ini_keep_alpha).value # image3D
    /\ filter(source_image3D, (maxcolors * ini_threshold_x) \div 255,
              (maxcolors * ini_threshold_y) \div 255,
              ini_wraparound, ini_keep_alpha).value = image3D

====
